---- MODULE Spec2Model ----
(***************************************************************************)
(* One round of the Monero proof-of-work simulator: the event engine       *)
(* (runSimulationEngine and its handlers), the unified pool agent          *)
(* (invokePoolAgent) and the difficulty engine (calculateNextDifficulty).  *)
(*                                                                         *)
(* Time is counted in ticks; a second is TicksPerSec ticks, so that        *)
(* Math.floor in the agent's localTime is a real rounding.  The noise      *)
(* samplers are strictly positive reals in the program; here each sample   *)
(* is a positive number of ticks, drawn from a small set per sampler.      *)
(***************************************************************************)
EXTENDS Integers, Sequences, FiniteSets, TLC

VARIABLES
    pools,        \* poolId -> pool object (chaintip, honTip, scores, ...)
    blocks,       \* blockId -> block record (the shared block table)
    diffWindows,  \* blockId -> difficulty window (the per-chaintip cache)
    eventQueue,   \* the pending events, in insertion order
    loop,         \* "running" | "stopped" | "crashed": the while loop of the engine
    last          \* observation of the event handled last (not program state)

vars == <<pools, blocks, diffWindows, eventQueue, loop, last>>

-----------------------------------------------------------------------------
(* Bounds of the model *)

SimDepthTicks == 8       \* sim.depth * 3600, in ticks after the start tip
MaxOwdP2H     == 2       \* largest pool-to-hasher one-way delay sample, in ticks
SpikeOwdP2P   == 5       \* pool-to-pool one-way delay under a tail spike, in ticks
LongBlockTime == 5       \* a long blockTime sample, in ticks (the short one is 1)
MaxTransTime  == 1       \* largest transTime sample, in ticks

(* Program constants (configuration of the round) *)

TicksPerSec          == 2
DIFFICULTY_TARGET_V2 == 2
DIFFICULTY_WINDOW    == 2
DIFFICULTY_CUT       == 0
DIFFICULTY_LAG       == 1

-----------------------------------------------------------------------------
(* Values *)

PoolIds == {"P0", "P1"}

\* a.poolId.localeCompare(b.poolId): the rank of a pool id in lexical order
PoolOrd(id) == CASE id = "HH0" -> 0 [] id = "P0" -> 1 [] id = "P1" -> 2 [] OTHER -> 3

\* null / undefined of a numeric field
Null == -1
\* null block id (also the undefined p.honTip)
NoId == <<0, "none">>

\* BlockId(h, pool) is the string `${height}_${poolId}`
BlockId(h, pool) == <<h, pool>>

\* JavaScript truthiness of a number or BigInt that may be null
Truthy(x) == x # Null /\ x # 0

Min(a, b) == IF a < b THEN a ELSE b
Max(a, b) == IF a > b THEN a ELSE b

Last(s) == s[Len(s)]
Reverse(s) == [i \in 1..Len(s) |-> s[Len(s) + 1 - i]]
InSeq(x, s) == \E i \in 1..Len(s) : s[i] = x
SeqToSet(s) == {s[i] : i \in 1..Len(s)}
SelectSeqNot(s, x) == SelectSeq(s, LAMBDA y : y # x)

\* Array.prototype.sort / toSorted with a numeric key is stable: an insertion
\* sort over <<key, value>> pairs
RECURSIVE InsertByKey(_, _)
InsertByKey(sorted, x) ==
    IF sorted = <<>> THEN <<x>>
    ELSE IF Last(sorted)[1] <= x[1] THEN Append(sorted, x)
    ELSE Append(InsertByKey(SubSeq(sorted, 1, Len(sorted) - 1), x), Last(sorted))

RECURSIVE SortPairs(_)
SortPairs(s) ==
    IF s = <<>> THEN <<>>
    ELSE InsertByKey(SortPairs(SubSeq(s, 1, Len(s) - 1)), Last(s))

StableSort(pairs) == [i \in 1..Len(pairs) |-> SortPairs(pairs)[i][2]]

\* ids.toSorted((a, b) => blocks[a].height - blocks[b].height)
HeightSorted(blks, ids) ==
    StableSort([i \in 1..Len(ids) |-> <<blks[ids[i]].height, ids[i]>>])

\* BigInt division truncates toward zero (b > 0)
BigIntDiv(a, b) == IF a >= 0 THEN a \div b ELSE -((-a) \div b)

-----------------------------------------------------------------------------
(* Difficulty engine *)

\* arr.slice(0, -lag): slice(0, -0) is slice(0, 0), the empty array
SliceDropLast(arr, lag) ==
    IF lag = 0 \/ lag >= Len(arr) THEN <<>> ELSE SubSeq(arr, 1, Len(arr) - lag)

\* arr.slice(-n): the last n entries (slice(-0) is the whole array)
SliceLast(arr, n) ==
    IF n = 0 \/ n >= Len(arr) THEN arr ELSE SubSeq(arr, Len(arr) - n + 1, Len(arr))

\* arr.slice(1)
SliceFrom1(arr) == IF Len(arr) <= 1 THEN <<>> ELSE SubSeq(arr, 2, Len(arr))

\* the <<key, value>> pairs of .sort((a, b) => a.timestamp - b.timestamp)
WindowTimestamp(arr) == [i \in 1..Len(arr) |-> <<arr[i].timestamp, arr[i]>>]

\* lines 657-659: discard the lag, keep the last W entries, sort by timestamp
SortedWindow(window, W, L) ==
    StableSort(WindowTimestamp(SliceLast(SliceDropLast(window, L), W)))

\* lines 666-674: the cut range (0-based cut_begin, exclusive cut_end)
CutBegin(length, W, C) ==
    IF length <= W - 2 * C THEN 0 ELSE (length - (W - 2 * C) + 1) \div 2

CutEnd(length, W, C) ==
    IF length <= W - 2 * C THEN length ELSE CutBegin(length, W, C) + (W - 2 * C)

\* line 678: if (time_span === 0) time_span = 1
ClampSpan(span0) == IF span0 = 0 THEN 1 ELSE span0

\* lines 677-679, on the sorted window dw; 0-based indices are 1-based here
TimeSpanOf(dw, W, C) ==
    ClampSpan(dw[CutEnd(Len(dw), W, C)].timestamp
                - dw[CutBegin(Len(dw), W, C) + 1].timestamp)

\* line 682, on the sorted window dw
TotalWorkOf(dw, W, C) ==
    dw[CutEnd(Len(dw), W, C)].cumDifficulty
       - dw[CutBegin(Len(dw), W, C) + 1].cumDifficulty

\* a result that is returned as computed
ClampDifficultyOff(d) == d

\* line 688: new_difficulty <= 0n ? 1n : new_difficulty
ClampDifficulty(d) == IF d <= 0 THEN 1 ELSE d

\* line 684, given the total work and the time span
NewDifficulty(total_work, T, time_span) ==
    BigIntDiv(total_work * T + time_span - 1, time_span)

\* lines 660-688, on the sorted window dw
DifficultyOfSorted(dw, W, C, T) ==
    IF Len(dw) <= 1 THEN 1
    ELSE ClampDifficulty(NewDifficulty(TotalWorkOf(dw, W, C), T, TimeSpanOf(dw, W, C)))

\* calculateNextDifficulty on a window, with window W, cut C, lag L, target T
NextDifficultyOf(window, W, C, L, T) ==
    DifficultyOfSorted(SortedWindow(window, W, L), W, C, T)

\* reconstructDiffWindow: walk prev over at most W + L blocks, oldest first.
\* A walk that leaves the block table throws (blocks[loopId] is undefined).
RECURSIVE ReconstructWalk(_, _, _)
ReconstructWalk(blks, loopId, n) ==
    IF n = 0 THEN <<>>
    ELSE Append(ReconstructWalk(blks, blks[loopId].prevId, n - 1),
                [timestamp |-> blks[loopId].timestamp,
                 cumDifficulty |-> blks[loopId].cumDifficulty])

RECURSIVE WalkStaysInTable(_, _, _)
WalkStaysInTable(blks, loopId, n) ==
    n = 0 \/ (loopId \in DOMAIN blks /\ WalkStaysInTable(blks, blks[loopId].prevId, n - 1))

reconstructDiffWindow(blks, blockId) ==
    ReconstructWalk(blks, blockId, DIFFICULTY_WINDOW + DIFFICULTY_LAG)

\* the window calculateNextDifficulty / integrateStrategyResults reads for blockId
WindowFor(blks, wins, blockId) ==
    IF blockId \in DOMAIN wins THEN wins[blockId] ELSE reconstructDiffWindow(blks, blockId)

calculateNextDifficulty(window) ==
    NextDifficultyOf(window, DIFFICULTY_WINDOW, DIFFICULTY_CUT, DIFFICULTY_LAG,
                     DIFFICULTY_TARGET_V2)

-----------------------------------------------------------------------------
(* Pool agent (plugins/unified_pool_agent.js)                               *)
(*                                                                         *)
(* The agent's local `scores` object holds references: an id the pool      *)
(* already has maps to the very object stored in p.scores, a new id to a   *)
(* fresh object.  `sc` is the heap of score objects (those of p.scores     *)
(* and the fresh ones), `keys` the keys of `scores` in insertion order.    *)

\* the tentative score resolveBranch creates for a block seen for the first time
FreshScore(ev, p) ==
    [simClock     |-> ev.simClock,
     localTime    |-> (ev.simClock + p.ntpDrift) \div TicksPerSec,
     diffScore    |-> Null,
     cumDiffScore |-> Null,
     isHeadPath   |-> FALSE,
     chaintip     |-> NoId]

\* scores[id] = obj : a new key goes last, an existing key keeps its place
AddKey(keys, id) == IF InSeq(id, keys) THEN keys ELSE Append(keys, id)

RECURSIVE ResolveWalk(_, _, _, _, _, _, _, _)
ResolveWalk(ev, p, blks, startHeight, id, sc, keys, req) ==
    IF id \in DOMAIN p.scores /\ p.scores[id].isHeadPath
    THEN [err |-> FALSE, sc |-> sc, keys |-> keys, ancestorId |-> id, requestIds |-> req]
    ELSE IF id \notin DOMAIN blks
    THEN [err |-> TRUE, sc |-> sc, keys |-> keys, ancestorId |-> id, requestIds |-> req]
    ELSE IF id \in DOMAIN p.scores
    THEN IF blks[id].height >= startHeight
         THEN ResolveWalk(ev, p, blks, startHeight, blks[id].prevId,
                          sc, AddKey(keys, id), req)
         ELSE ResolveWalk(ev, p, blks, startHeight, blks[id].prevId, sc, keys, req)
    ELSE IF InSeq(id, ev.newIds)
    THEN IF blks[id].height >= startHeight
         THEN ResolveWalk(ev, p, blks, startHeight, blks[id].prevId,
                          (id :> FreshScore(ev, p)) @@ sc, AddKey(keys, id), req)
         ELSE ResolveWalk(ev, p, blks, startHeight, blks[id].prevId, sc, keys, req)
    ELSE ResolveWalk(ev, p, blks, startHeight, blks[id].prevId, sc, keys, req \cup {id})

\* resolveBranch: keys are in walk order (newTip first); scoresIds is their reverse
resolveBranch(ev, p, blks, newTip) ==
    IF ev.newIds = <<>> \/ ev.newIds[1] \notin DOMAIN blks
    THEN [err |-> TRUE, sc |-> p.scores, keys |-> <<>>, ancestorId |-> NoId,
          requestIds |-> {}]
    ELSE ResolveWalk(ev, p, blks, blks[ev.newIds[1]].height, newTip, p.scores, <<>>, {})

\* p.scores[prevId]?.cumDiffScore ?? scores[prevId]?.cumDiffScore
PrevCumDiffScore(p, sc, keys, prevId) ==
    LET viaPool == IF prevId \in DOMAIN p.scores THEN sc[prevId].cumDiffScore ELSE Null
    IN  IF viaPool # Null THEN viaPool
        ELSE IF InSeq(prevId, keys) THEN sc[prevId].cumDiffScore ELSE Null

\* scoreBlock with the base scoring list (p.config.scoring empty: adjustment 0)
scoreBlockOk(p, blks, sc, keys, id) ==
    Truthy(PrevCumDiffScore(p, sc, keys, blks[id].prevId))

\* a scoreBlock that hands the parent's cumulative score on without the block's own
scoreBlockFlat(p, blks, sc, keys, id) ==
    IF scoreBlockOk(p, blks, sc, keys, id)
    THEN [sc EXCEPT ![id].diffScore    = blks[id].difficulty,
                    ![id].cumDiffScore = PrevCumDiffScore(p, sc, keys, blks[id].prevId)]
    ELSE sc

\* scoreBlock, lines 166-190
scoreBlock(p, blks, sc, keys, id) ==
    IF scoreBlockOk(p, blks, sc, keys, id)
    THEN [sc EXCEPT ![id].diffScore    = blks[id].difficulty,
                    ![id].cumDiffScore = PrevCumDiffScore(p, sc, keys, blks[id].prevId)
                                           + blks[id].difficulty]
    ELSE sc

\* for (const id of scoresIds) if (!scoreBlock(...)) break;
RECURSIVE ScoreBranch(_, _, _, _, _, _)
ScoreBranch(p, blks, sc, keys, scoresIds, i) ==
    IF i > Len(scoresIds) THEN sc
    ELSE IF scoreBlockOk(p, blks, sc, keys, scoresIds[i])
    THEN ScoreBranch(p, blks, scoreBlock(p, blks, sc, keys, scoresIds[i]), keys,
                     scoresIds, i + 1)
    ELSE sc

\* the loop of scoreDanglingChaintips over the sorted unscored ids;
\* prevIds is the rolling map height -> [ids], kept as the set of its ids
RECURSIVE DanglingLoop(_, _, _, _, _, _, _)
DanglingLoop(p, blks, unscored, i, sc, keys, prevIds) ==
    IF i > Len(unscored) THEN [sc |-> sc, keys |-> keys]
    ELSE LET id     == unscored[i]
             height == blks[id].height
         IN  IF ~ \E q \in prevIds : blks[q].height = height - 1
             THEN [sc |-> sc, keys |-> keys]
             ELSE IF blks[id].prevId \in prevIds
             THEN LET keys2 == AddKey(keys, id)
                  IN  IF scoreBlockOk(p, blks, sc, keys2, id)
                      THEN DanglingLoop(p, blks, unscored, i + 1,
                                        scoreBlock(p, blks, sc, keys2, id), keys2,
                                        prevIds \cup {id})
                      ELSE DanglingLoop(p, blks, unscored, i + 1, sc, keys2, prevIds)
             ELSE DanglingLoop(p, blks, unscored, i + 1, sc, keys, prevIds)

scoreDanglingChaintips(p, blks, sc, keys, newTip) ==
    IF ~ (InSeq(newTip, keys) /\ Truthy(sc[newTip].cumDiffScore))
    THEN [sc |-> sc, keys |-> keys]
    ELSE LET startHeight == blks[newTip].height
             unscored == HeightSorted(blks,
                 SelectSeq(p.unscored, LAMBDA id : blks[id].height > startHeight))
         IN  DanglingLoop(p, blks, unscored, 1, sc, keys, {newTip})

\* findHighestScore: the first key, in insertion order, with the strictly
\* greatest cumDiffScore; maxTip = [0n, null] when none is scored
RECURSIVE HighestFrom(_, _, _, _)
HighestFrom(sc, keys, i, maxTip) ==
    IF i > Len(keys) THEN maxTip
    ELSE HighestFrom(sc, keys, i + 1,
                     IF sc[keys[i]].cumDiffScore > maxTip[1]
                     THEN <<sc[keys[i]].cumDiffScore, keys[i]>>
                     ELSE maxTip)

findHighestScore(sc, keys) == HighestFrom(sc, keys, 1, <<0, NoId>>)

\* while (!p.scores[commonAncestor].isHeadPath) commonAncestor = blocks[..].prevId
\* <<FALSE, _>> when the walk dereferences a score or a block that does not exist
RECURSIVE AncestorWalk(_, _, _)
AncestorWalk(p, blks, id) ==
    IF id \notin DOMAIN p.scores THEN <<FALSE, id>>
    ELSE IF p.scores[id].isHeadPath THEN <<TRUE, id>>
    ELSE IF id \notin DOMAIN blks THEN <<FALSE, id>>
    ELSE AncestorWalk(p, blks, blks[id].prevId)

\* while (!blocks[id].broadcast) { unbroadcast.push(id); id = blocks[id].prevId }
\* followed by reverse(): ascending height
RECURSIVE UnbroadcastWalk(_, _)
UnbroadcastWalk(blks, id) ==
    IF id \notin DOMAIN blks THEN <<FALSE, <<>>>>
    ELSE IF blks[id].broadcast = "true" THEN <<TRUE, <<>>>>
    ELSE LET rest == UnbroadcastWalk(blks, blks[id].prevId)
         IN  <<rest[1], Append(rest[2], id)>>

\* a slice that drops the first element instead of keeping the first n
Slice0FromOne(arr, n) == SubSeq(arr, 2, Len(arr))

\* arr.slice(0, n), n possibly negative
Slice0(arr, n) ==
    IF n >= 0 THEN SubSeq(arr, 1, Min(n, Len(arr)))
    ELSE SubSeq(arr, 1, Max(0, Len(arr) + n))

\* scores[id]?.cumDiffScore ?? p.scores[id].cumDiffScore (id is known to exist)
ScoreOf(sc, id) == sc[id].cumDiffScore

\* an abandon threshold that does not tolerate falling behind
abandonThreshAtZero(honLength, kThresh, kNew) == honLength * (0 - kNew)

abandonThresh(honLength, kThresh, kNew) == honLength * (Min(0, kThresh) - kNew)
\* a claim threshold that is not scaled by the honest length
claimThreshUnscaled(honLength, kThresh, kNew, zeroPrimeBump) ==
    Max(0, kThresh) - kNew + zeroPrimeBump

\* a claim threshold that claims only below kThresh
claimThreshStrict(honLength, kThresh, kNew, zeroPrimeBump) ==
    honLength * (Max(0, kThresh) - kNew)

\* a claim threshold without the bump of state 0'
claimThreshNoBump(honLength, kThresh, kNew, zeroPrimeBump) ==
    honLength * (Max(0, kThresh) - kNew + 1)

claimThresh(honLength, kThresh, kNew, zeroPrimeBump) ==
    honLength * (Max(0, kThresh) - kNew + zeroPrimeBump)
retortCount(retortPolicy, honAdded) == Min(retortPolicy * honAdded, honAdded + 1)

\* a selfish pool that abandons on the policy trigger only
AbandonsOnThreshOnly(abandon, selfLength) == abandon > 0

\* line 140: abandon on policy trigger, or if there is no selfish branch
Abandons(abandon, selfLength) == abandon > 0 \/ selfLength = 0

\* what the two info() lines of executeSelfishStrategy (126-127, 135-136) print:
\* k, sL, hL, addL, maxTip, anc, abandon, claim, retortCnt (and zpB, as the
\* equation test prints it); seen = FALSE while nothing has been printed
NoLog ==
    [seen |-> FALSE, k |-> 0, sL |-> 0, hL |-> 0, addL |-> 0, maxTip |-> NoId,
     anc |-> NoId, zpB |-> 0, abandon |-> 0, claim |-> 0, retortCnt |-> 0]

\* lines 121-164 of executeSelfishStrategy, once selfTip, honTip, honAdded and
\* the common ancestor are known; res is the Decision so far
SelfishDecide(ev, p, blks, sc, selfTip, honTip, honAdded, commonAncestor, maxTip, res0) ==
    LET ancestorHeight == blks[commonAncestor].height
        honLength      == blks[honTip].height - ancestorHeight
        selfLength     == blks[selfTip].height - ancestorHeight
        kNew           == selfLength - honLength
        zeroPrimeBump  == IF selfLength > 1 /\ kNew = 1 /\ ev.action = "RECV_OWN"
                          THEN 2 ELSE 1
        abandon == abandonThresh(honLength, p.kThresh, kNew)
        claim   == claimThresh(honLength, p.kThresh, kNew, zeroPrimeBump)
        retort  == retortCount(p.retortPolicy, honAdded)
        res     == [res0 EXCEPT !.log =
                       [seen |-> TRUE, k |-> kNew, sL |-> selfLength, hL |-> honLength,
                        addL |-> honAdded, maxTip |-> maxTip[2], anc |-> commonAncestor,
                        zpB |-> zeroPrimeBump, abandon |-> abandon, claim |-> claim,
                        retortCnt |-> retort]]
        walk    == IF claim > 0 \/ retort > 0
                   THEN UnbroadcastWalk(blks, res.chaintip) ELSE <<TRUE, <<>>>>
        bcIds   == IF claim > 0 THEN walk[2] ELSE Slice0(walk[2], retort)
    IN  IF Abandons(abandon, selfLength)
        THEN [res EXCEPT !.chaintip = maxTip[2]]
        ELSE IF ~ walk[1] THEN [res EXCEPT !.err = TRUE]
        ELSE IF bcIds = <<>> THEN [res EXCEPT !.broadcastIds = bcIds]
        ELSE IF Last(bcIds) \notin DOMAIN sc \/ honTip \notin DOMAIN sc
        THEN [res EXCEPT !.err = TRUE]
        ELSE [res EXCEPT !.broadcastIds = bcIds,
                         !.honTip = IF ScoreOf(sc, Last(bcIds)) > ScoreOf(sc, honTip)
                                    THEN Last(bcIds) ELSE @]

executeSelfishStrategy(ev, p, blks, sc, newTip, ancestorId, maxTip, res) ==
    IF ev.action = "RECV_OWN"
    THEN LET walk == AncestorWalk(p, blks, p.honTip)
             edge == p.scores[p.honTip].isHeadPath
                       /\ blks[newTip].height = blks[p.honTip].height
             commonAncestor == IF edge THEN blks[p.honTip].prevId ELSE walk[2]
         IN  IF ~ walk[1] \/ commonAncestor \notin DOMAIN blks
             THEN [res EXCEPT !.err = TRUE]
             ELSE SelfishDecide(ev, p, blks, sc, newTip, p.honTip, 0, commonAncestor,
                      maxTip,
                      [res EXCEPT !.chaintip = newTip, !.timestamp = sc[newTip].localTime])
    ELSE IF maxTip[2] = NoId THEN [res EXCEPT !.chaintip = p.chaintip]
    ELSE IF p.honTip \notin DOMAIN blks THEN [res EXCEPT !.err = TRUE]
    ELSE SelfishDecide(ev, p, blks, sc, p.chaintip, maxTip[2],
             blks[maxTip[2]].height - blks[p.honTip].height, ancestorId, maxTip,
             [res EXCEPT !.honTip = maxTip[2]])

\* an honest branch that never leaves its chaintip
HonestKeepsTip(action, maxScore, poolTipScore) == FALSE

\* an honest branch that takes the new tip on every tie
HonestTakesMaxTipOnTie(action, maxScore, poolTipScore) == maxScore >= poolTipScore

\* the honest branch of invokePoolAgent (lines 62-72)
HonestTakesMaxTip(action, maxScore, poolTipScore) ==
    maxScore > poolTipScore \/ (action = "RECV_OWN" /\ maxScore = poolTipScore)

executeHonestStrategy(ev, p, sc, newTip, maxTip, res) ==
    LET poolTipScore == sc[p.chaintip].cumDiffScore
        tip == IF HonestTakesMaxTip(ev.action, maxTip[1], poolTipScore)
               THEN maxTip[2] ELSE p.chaintip
    IN  IF ev.action = "RECV_OWN"
        THEN [res EXCEPT !.chaintip = tip, !.timestamp = sc[newTip].localTime,
                         !.broadcastIds = <<newTip>>]
        ELSE [res EXCEPT !.chaintip = tip]

\* for (const id in scores) if (!scores[id].chaintip) scores[id].chaintip = chaintip
StampChaintip(sc, keys, chaintip) ==
    [id \in DOMAIN sc |->
        IF InSeq(id, keys) /\ sc[id].chaintip = NoId
        THEN [sc[id] EXCEPT !.chaintip = chaintip] ELSE sc[id]]

\* the two walks of propagateHeadPathToScores: from `id` back to a stop block,
\* setting isHeadPath = mark on every score visited.  A score missing from both
\* scores and p.scores, or a block missing from the table, throws.
RECURSIVE MarkWalk(_, _, _, _, _, _, _)
MarkWalk(p, blks, sc, keys, id, stops, mark) ==
    IF id \in stops THEN [err |-> FALSE, sc |-> sc, keys |-> keys, at |-> id]
    ELSE IF id \notin DOMAIN sc \/ id \notin DOMAIN blks
    THEN [err |-> TRUE, sc |-> sc, keys |-> keys, at |-> id]
    ELSE MarkWalk(p, blks, [sc EXCEPT ![id].isHeadPath = mark], AddKey(keys, id),
                  blks[id].prevId, stops, mark)

\* a propagateHeadPathToScores that leaves the orphaned scores marked
UnmarkOrphansSkipped(p, blks, sc, keys, ancestorId) ==
    [err |-> FALSE, sc |-> sc, keys |-> keys, at |-> ancestorId]

\* the reorg walk (lines 298-305): from the old chaintip back to the ancestor
UnmarkOrphans(p, blks, sc, keys, ancestorId) ==
    MarkWalk(p, blks, sc, keys, p.chaintip, {ancestorId}, FALSE)

propagateHeadPathToScores(p, blks, sc0, keys0, ancestorId, chaintip) ==
    LET up == MarkWalk(p, blks, StampChaintip(sc0, keys0, chaintip), keys0, chaintip,
                       {p.chaintip, ancestorId}, TRUE)
    IN  IF up.err \/ up.at # ancestorId THEN up
        ELSE UnmarkOrphans(p, blks, up.sc, up.keys, ancestorId)

\* The return contract.  scores = null is hasScores = FALSE; a null list is <<>>,
\* a null request set {}.  sc and keys describe the agent's heap when it returns
\* (or throws: err): sc restricted to the pool's ids is p.scores as the call left it.
Decision(p) ==
    [err |-> FALSE, chaintip |-> p.chaintip, honTip |-> NoId, timestamp |-> Null,
     hasScores |-> FALSE, broadcastIds |-> <<>>, requestIds |-> {},
     sc |-> p.scores, keys |-> <<>>, log |-> NoLog]

\* lines 77-80: results.scores = scores, after the head path is propagated
ReturnScores(res, head) ==
    [res EXCEPT !.err = head.err, !.hasScores = ~ head.err,
                !.sc = head.sc, !.keys = head.keys]

\* lines 77-78, given the strategy's results
PropagateAndReturn(p, blks, dang, ancestorId, res) ==
    IF res.err THEN res
    ELSE ReturnScores(res, propagateHeadPathToScores(p, blks, dang.sc, dang.keys,
                                                     ancestorId, res.chaintip))

\* lines 61-75: the switch between the honest and the selfish behaviour
ApplyStrategy(ev, p, blks, newTip, ancestorId, dang, maxTip, res0) ==
    PropagateAndReturn(p, blks, dang, ancestorId,
        IF p.honest
        THEN executeHonestStrategy(ev, p, dang.sc, newTip, maxTip, res0)
        ELSE executeSelfishStrategy(ev, p, blks, dang.sc, newTip, ancestorId,
                                    maxTip, res0))

\* lines 48-59, given the scores after scoreDanglingChaintips
DecideOnScores(ev, p, blks, newTip, branch, dang) ==
    ApplyStrategy(ev, p, blks, newTip, branch.ancestorId, dang,
        findHighestScore(dang.sc, dang.keys),
        [Decision(p) EXCEPT !.requestIds = branch.requestIds,
                            !.sc = dang.sc, !.keys = dang.keys])

\* lines 41-46, given the branch resolveBranch returned
ScoreAndDecide(ev, p, blks, newTip, branch) ==
    IF branch.err THEN [Decision(p) EXCEPT !.err = TRUE]
    ELSE DecideOnScores(ev, p, blks, newTip, branch,
            scoreDanglingChaintips(p, blks,
                ScoreBranch(p, blks, branch.sc, branch.keys, Reverse(branch.keys), 1),
                branch.keys, newTip))

\* an agent that scores its new tip again
AlreadyScoredNever(p, newTip) == FALSE

\* line 34: p.scores[newTip]?.cumDiffScore
AlreadyScored(p, newTip) ==
    newTip \in DOMAIN p.scores /\ Truthy(p.scores[newTip].cumDiffScore)

\* lines 33-40, given newTip = activeEvent.newIds.at(-1)
ResolveAndDecide(ev, p, blks, newTip) ==
    IF AlreadyScored(p, newTip)
    THEN [Decision(p) EXCEPT !.honTip = p.honTip]
    ELSE ScoreAndDecide(ev, p, blks, newTip, resolveBranch(ev, p, blks, newTip))

invokePoolAgent(ev, p, blks) ==
    ResolveAndDecide(ev, p, blks, IF ev.newIds = <<>> THEN NoId ELSE Last(ev.newIds))

-----------------------------------------------------------------------------
(* Event engine (main.js, runSimulationEngine and its handlers) *)

\* samples of the noise functions (makeNoiseFunctions), in ticks
\* owdP2P is the base sample or, under a tail spike, the base times spikeMult
OwdP2PSamples    == {1, SpikeOwdP2P}
OwdP2HSamples    == 1..MaxOwdP2H
TransTimeSamples == 1..MaxTransTime
\* blockTime is exponential: a short and a long sample
BlockTimeSamples == {1, LongBlockTime}

\* localeCompare of two block ids `${height}_${poolId}` (one-digit heights);
\* NoId stands for the '0' the comparator uses when newIds is no array
IdCompare(a, b) ==
    IF a = b THEN 0
    ELSE IF a[1] < b[1] \/ (a[1] = b[1] /\ PoolOrd(a[2]) < PoolOrd(b[2])) THEN -1 ELSE 1

\* rank of an action tag in lexical order
ActionOrd(action) ==
    CASE action = "HASHER_FIND" -> 0 [] action = "RECV_OTHER" -> 1 [] action = "RECV_OWN" -> 2

\* a.action.localeCompare(b.action): the tags in plain lexical order
ActionCompareLexical(a, b) == ActionOrd(a.action) - ActionOrd(b.action)

\* b.action.localeCompare(a.action): negative when a's tag is lexically greater
ActionCompare(a, b) == ActionOrd(b.action) - ActionOrd(a.action)

LastNewId(e) == IF e.newIds = <<>> THEN NoId ELSE Last(e.newIds)

\* the comparator handed to TinyQueue: negative when a goes before b
CompareEvents(a, b) ==
    IF a.simClock # b.simClock THEN a.simClock - b.simClock
    ELSE IF a.poolId # b.poolId THEN PoolOrd(a.poolId) - PoolOrd(b.poolId)
    ELSE IF a.action # b.action THEN ActionCompare(a, b)
    ELSE IF a.chaintip # b.chaintip THEN IdCompare(a.chaintip, b.chaintip)
    ELSE IdCompare(LastNewId(a), LastNewId(b))

\* a pop() that looks at simClock alone
IsTopByClock(q, i) == \A j \in 1..Len(q) : q[j].simClock >= q[i].simClock

\* eventQueue.pop() returns an event no other queued event goes before
IsTop(q, i) == \A j \in 1..Len(q) : CompareEvents(q[j], q[i]) >= 0

RemoveAt(q, i) == SubSeq(q, 1, i - 1) \o SubSeq(q, i + 1, Len(q))

\* the event simulateBlockTime pushes
simulateBlockTime(poolId, chaintip, simClock, owdP2H, timeToFind) ==
    [simClock |-> simClock + owdP2H + timeToFind, poolId |-> poolId,
     action |-> "HASHER_FIND", chaintip |-> chaintip, newIds |-> <<>>]

\* a hasherFindsBlock without the template-arrival window
HasherFindValidNoWindow(p, blks, ev, owdP2H) ==
    \/ ev.chaintip = p.chaintip
    \/ ev.chaintip = blks[p.chaintip].prevId

\* hasherFindsBlock: is the find still relevant to the pool?
HasherFindValid(p, blks, ev, owdP2H) ==
    \/ ev.chaintip = p.chaintip
    \/ /\ ev.chaintip = blks[p.chaintip].prevId
       /\ ~ (ev.simClock > p.scores[p.chaintip].simClock + owdP2H)

\* a hasherFindsBlock that subtracts the latency instead of adding it
hasherFindsBlockEarly(ev, owdP2H) ==
    [ev EXCEPT !.simClock = @ - owdP2H, !.action = "RECV_OWN"]

\* the RECV_OWN event hasherFindsBlock pushes
hasherFindsBlock(ev, owdP2H) ==
    [ev EXCEPT !.simClock = @ + owdP2H, !.action = "RECV_OWN"]

\* a generateBlock without the staleness test
GenerateBlockValidAlways(p, blks, ev) == TRUE

\* generateBlock: the staleness test
GenerateBlockValid(p, blks, ev) ==
    \/ ev.chaintip = p.chaintip
    \/ ev.chaintip = blks[p.chaintip].prevId

\* a generateBlock that leaves the new difficulty out of the cumulative one
generateBlockFlat(blks, ev) ==
    LET b == blks[ev.chaintip]
    IN  [simClock      |-> ev.simClock,
         height        |-> b.height + 1,
         poolId        |-> ev.poolId,
         prevId        |-> ev.chaintip,
         timestamp     |-> Null,
         difficulty    |-> b.nxtDifficulty,
         cumDifficulty |-> b.cumDifficulty,
         nxtDifficulty |-> Null,
         broadcast     |-> "null"]

\* a generateBlock that links the new block to the parent of the extended block
generateBlockOnGrandparent(blks, ev) ==
    LET b == blks[ev.chaintip]
    IN  [simClock      |-> ev.simClock,
         height        |-> b.height + 1,
         poolId        |-> ev.poolId,
         prevId        |-> b.prevId,
         timestamp     |-> Null,
         difficulty    |-> b.nxtDifficulty,
         cumDifficulty |-> b.nxtDifficulty + b.cumDifficulty,
         nxtDifficulty |-> Null,
         broadcast     |-> "null"]

\* generateBlock: the block minted on b = blocks[ev.chaintip]
generateBlock(blks, ev) ==
    LET b == blks[ev.chaintip]
    IN  [simClock      |-> ev.simClock,
         height        |-> b.height + 1,
         poolId        |-> ev.poolId,
         prevId        |-> ev.chaintip,
         timestamp     |-> Null,
         difficulty    |-> b.nxtDifficulty,
         cumDifficulty |-> b.nxtDifficulty + b.cumDifficulty,
         nxtDifficulty |-> Null,
         broadcast     |-> "null"]

NewBlockId(blks, ev) == BlockId(blks[ev.chaintip].height + 1, ev.poolId)

\* the RECV_OTHER events broadcastBlock pushes, one per other pool in pool order
RECURSIVE BroadcastEvents(_, _, _, _)
BroadcastEvents(poolSeq, ev, newIds, owd) ==
    IF poolSeq = <<>> THEN <<>>
    ELSE LET q == poolSeq[1]
             rest == BroadcastEvents(SubSeq(poolSeq, 2, Len(poolSeq)), ev, newIds, owd)
         IN  IF q = ev.poolId THEN rest
             ELSE <<[simClock |-> ev.simClock + owd[q], poolId |-> q,
                     action |-> "RECV_OTHER", chaintip |-> NoId, newIds |-> newIds]>>
                  \o rest

\* Object.values(pools): the pools in key order
PoolSeq == <<"P0", "P1">>

\* a broadcast that also reaches the pool that sends it
broadcastBlockToAll(blks, newIds, ev, owd) ==
    BroadcastEvents(PoolSeq, [ev EXCEPT !.poolId = "none"], HeightSorted(blks, newIds), owd)

\* broadcastBlock, main.js lines 609-629
broadcastBlock(blks, newIds, ev, owd) ==
    BroadcastEvents(PoolSeq, ev, HeightSorted(blks, newIds), owd)

MarkBroadcast(blks, ids) ==
    [id \in DOMAIN blks |->
        IF InSeq(id, ids) THEN [blks[id] EXCEPT !.broadcast = "true"] ELSE blks[id]]

\* the ids of a set in ascending height ([...set].toSorted(by height))
RECURSIVE SetToSortedSeq(_, _)
SetToSortedSeq(blks, ids) ==
    IF ids = {} THEN <<>>
    ELSE LET top == CHOOSE x \in ids : \A y \in ids :
                        blks[y].height < blks[x].height
                        \/ (blks[y].height = blks[x].height
                            /\ PoolOrd(y[2]) <= PoolOrd(x[2]))
         IN  Append(SetToSortedSeq(blks, ids \ {top}), top)

\* for (const id in results.scores): unscored.set(id, height) when the score is
\* null, unscored.delete(id) otherwise; unscored is a Map (insertion order)
RECURSIVE UpdateUnscored(_, _, _, _)
UpdateUnscored(unscored, sc, ids, i) ==
    IF i > Len(ids) THEN unscored
    ELSE UpdateUnscored(
            IF sc[ids[i]].cumDiffScore = Null THEN AddKey(unscored, ids[i])
            ELSE SelectSeqNot(unscored, ids[i]),
            sc, ids, i + 1)

\* an integration that requests every id the Decision names
NewRequestsAll(res, pending) == res.requestIds

\* lines 742-747: the requested ids that are not already pending
NewRequests(res, pending) == res.requestIds \ pending

\* an integration that restarts the block timer at every Decision
ChaintipChangesAlways(p, res) == TRUE

\* an engine that never reschedules the hasher
ChaintipChangesNever(p, res) == FALSE

\* does the Decision change the chaintip the pool mines on (line 734)
ChaintipChanges(p, res) == p.chaintip # res.chaintip

\* an integration that writes the timestamp to the block the event extends
TimestampTargetParent(ev, res) == ev.chaintip

\* the block whose timestamp and nxtDifficulty integrateStrategyResults writes
TimestampTarget(ev, res) == res.chaintip

\* a window that grows by one entry with every block and drops none
ExtendWindowNoSlice(oldWindow, timestamp, cumDifficulty) ==
    oldWindow \o <<[timestamp |-> timestamp, cumDifficulty |-> cumDifficulty]>>

\* diffWindows[newTip] = diffWindows[oldTip].slice(1).concat({timestamp, cumDifficulty})
ExtendWindow(oldWindow, timestamp, cumDifficulty) ==
    SliceFrom1(oldWindow) \o <<[timestamp |-> timestamp, cumDifficulty |-> cumDifficulty]>>

\* when the integration dereferences something that does not exist, it throws
IntegrateThrows(p, ev, res, blks) ==
    \/ /\ Truthy(res.timestamp)
       /\ \/ TimestampTarget(ev, res) \notin DOMAIN blks
          \/ ~ WalkStaysInTable(blks, ev.chaintip, DIFFICULTY_WINDOW + DIFFICULTY_LAG)
    \/ ChaintipChanges(p, res) /\ res.chaintip \notin DOMAIN blks
    \/ \E id \in res.requestIds \cup SeqToSet(res.broadcastIds) : id \notin DOMAIN blks

\* integrateStrategyResults; n holds the noise samples the pushes draw.
\* Returns the pool, the block table, the window cache and the events pushed.
integrateStrategyResults(p, ev, res, blks, wins, n) ==
    LET received == p.requestIds \ SeqToSet(ev.newIds)
        stamp    == Truthy(res.timestamp)
        newTip   == TimestampTarget(ev, res)
        wins1    == IF stamp THEN (ev.chaintip :> WindowFor(blks, wins, ev.chaintip)) @@ wins
                    ELSE wins
        wins2    == IF stamp
                    THEN (newTip :> ExtendWindow(wins1[ev.chaintip], res.timestamp,
                                                 blks[newTip].cumDifficulty)) @@ wins1
                    ELSE wins
        blks1    == IF stamp
                    THEN [blks EXCEPT ![newTip].timestamp = res.timestamp,
                                      ![newTip].nxtDifficulty =
                                            calculateNextDifficulty(wins2[newTip])]
                    ELSE blks
        sorted   == IF res.hasScores THEN HeightSorted(blks, res.keys) ELSE <<>>
        added    == SelectSeq(sorted, LAMBDA id : id \notin DOMAIN p.scores)
        honTip   == IF res.honTip # NoId THEN res.honTip ELSE p.honTip
        newReq   == NewRequests(res, received)
        simEv    == IF ChaintipChanges(p, res)
                    THEN <<simulateBlockTime(ev.poolId, res.chaintip, ev.simClock,
                                             n.owdP2H, n.blockTime)>>
                    ELSE <<>>
        reqEv    == IF newReq # {}
                    THEN <<[simClock |-> ev.simClock + 2 * n.owdReq
                                           + n.transTime * Cardinality(newReq),
                            poolId |-> ev.poolId, action |-> "RECV_OTHER",
                            chaintip |-> NoId,
                            newIds |-> SetToSortedSeq(blks, newReq)]>>
                    ELSE <<>>
        bcEv     == IF res.broadcastIds # <<>>
                    THEN broadcastBlock(blks, res.broadcastIds, ev, n.owdP2P)
                    ELSE <<>>
    IN  [pool   |-> [p EXCEPT !.requestIds = received \cup newReq,
                              !.scores     = res.sc,
                              !.order      = @ \o added,
                              !.unscored   = UpdateUnscored(@, res.sc, sorted, 1),
                              !.honTip     = honTip,
                              !.chaintip   = res.chaintip],
         blocks |-> MarkBroadcast(blks1, res.broadcastIds),
         wins   |-> wins2,
         events |-> simEv \o reqEv \o bcEv]

\* a resourceManagement that prunes nothing
resourceManagementKeepAll(pls, blks, wins) == wins

\* resourceManagement: keep the windows of every pool's chaintip and of its parent
resourceManagement(pls, blks, wins) ==
    LET keepWindows == {pls[q].chaintip : q \in PoolIds}
                         \cup {blks[pls[q].chaintip].prevId :
                                 q \in {r \in PoolIds : pls[r].chaintip \in DOMAIN blks}}
    IN  [k \in DOMAIN wins \cap keepWindows |-> wins[k]]

-----------------------------------------------------------------------------
(* The round: state after importHistory, initializePools and the seeding of   *)
(* the queue in runSimulationEngine                                           *)

\* the bootstrap history: DIFFICULTY_WINDOW + DIFFICULTY_LAG blocks of pool HH0
HistoryHeights == 1..(DIFFICULTY_WINDOW + DIFFICULTY_LAG)
HistoryBlock(h) ==
    [simClock      |-> 2 * h * TicksPerSec,
     height        |-> h,
     poolId        |-> "HH0",
     prevId        |-> BlockId(h - 1, "HH0"),
     timestamp     |-> 2 * h,
     difficulty    |-> 2,
     cumDifficulty |-> 2 * h,
     nxtDifficulty |-> Null,
     broadcast     |-> "true"]

startTip == BlockId(DIFFICULTY_WINDOW + DIFFICULTY_LAG, "HH0")

importHistoryWindow == [i \in HistoryHeights |->
    [timestamp |-> HistoryBlock(i).timestamp, cumDifficulty |-> HistoryBlock(i).cumDifficulty]]

\* runSimulationEngine line 817: the start tip gets its nxtDifficulty
InitBlocks ==
    [id \in {BlockId(h, "HH0") : h \in HistoryHeights} |->
        IF id = startTip
        THEN [HistoryBlock(id[1]) EXCEPT
                 !.nxtDifficulty = calculateNextDifficulty(importHistoryWindow)]
        ELSE HistoryBlock(id[1])]

simDepth == HistoryBlock(startTip[1]).simClock + SimDepthTicks

\* the strategy configurations a pool may be given (strategy_manifest)
Policies ==
    { [honest |-> TRUE,  kThresh |-> 0, retortPolicy |-> 0],
      [honest |-> FALSE, kThresh |-> 1, retortPolicy |-> 1] }

\* the honest baseline configuration
HonestPolicy == CHOOSE h \in Policies : h.honest

\* ntpDrift samples of the pools, in ticks: one pool's clock is half a second ahead
NtpDrifts == { [q \in PoolIds |-> IF q = "P0" THEN 0 ELSE 1] }

\* initializePools: p.honTip is never assigned (the initializer sets p.altTip)
initializePools(policy, ntpDrift) ==
    [chaintip     |-> startTip,
     honTip       |-> NoId,
     scores       |-> (startTip :>
                         [simClock     |-> HistoryBlock(startTip[1]).simClock,
                          localTime    |-> (HistoryBlock(startTip[1]).simClock + ntpDrift)
                                              \div TicksPerSec,
                          diffScore    |-> HistoryBlock(startTip[1]).difficulty,
                          cumDiffScore |-> HistoryBlock(startTip[1]).cumDifficulty,
                          isHeadPath   |-> TRUE,
                          chaintip     |-> startTip]),
     order        |-> <<startTip>>,
     requestIds   |-> {},
     unscored     |-> <<>>,
     ntpDrift     |-> ntpDrift,
     honest       |-> policy.honest,
     kThresh      |-> policy.kThresh,
     retortPolicy |-> policy.retortPolicy]

NoEvent == [simClock |-> 0, poolId |-> "none", action |-> "none", chaintip |-> NoId,
            newIds |-> <<>>]

Init ==
    /\ \E pol \in [PoolIds -> Policies], drift \in NtpDrifts :
          /\ pol["P0"].honest
          /\ pools = [q \in PoolIds |-> initializePools(pol[q], drift[q])]
    /\ blocks = InitBlocks
    /\ diffWindows = (startTip :> importHistoryWindow)
    /\ \E owd \in [PoolIds -> OwdP2HSamples], bt \in [PoolIds -> BlockTimeSamples] :
          eventQueue = [i \in 1..Len(PoolSeq) |->
              simulateBlockTime(PoolSeq[i], startTip, InitBlocks[startTip].simClock,
                                owd[PoolSeq[i]], bt[PoolSeq[i]])]
    /\ loop = "running"
    /\ last = [ev |-> NoEvent, prevEv |-> NoEvent, kind |-> "init", owdP2H |-> 0,
               pre |-> pools["P0"], dec |-> Decision(pools["P0"]),
               minted |-> NoId, existed |-> FALSE, rebuilt |-> FALSE]

\* what the engine records of the event it has just handled; rebuilt: the
\* integration found no cached window for the event's chaintip (main.js line 710)
Observe(ev, kind, owd, pre, dec, minted, existed) ==
    [ev |-> ev, prevEv |-> last.ev, kind |-> kind, owdP2H |-> owd, pre |-> pre,
     dec |-> dec, minted |-> minted, existed |-> existed,
     rebuilt |-> /\ kind = "integrated"
                 /\ Truthy(dec.timestamp)
                 /\ ev.chaintip \notin DOMAIN diffWindows]

\* the loop pops event i and dispatches it
Pops(i) ==
    /\ loop = "running"
    /\ i \in 1..Len(eventQueue)
    /\ IsTop(eventQueue, i)
    /\ eventQueue[i].simClock <= simDepth

\* a sampler that is not called draws nothing: `Drawn(called, samples)`
Drawn(called, samples) == IF called THEN samples ELSE {0}

\* hasherFindsBlock samples owdP2H for the window only when the tip is the parent
HasherFindSamplesWindow(p, blks, ev) ==
    ev.chaintip # p.chaintip /\ ev.chaintip = blks[p.chaintip].prevId

\* processActiveEvent, HASHER_FIND
HasherFind ==
    \E i \in 1..Len(eventQueue) :
        LET ev == eventQueue[i]
            p  == pools[ev.poolId]
        IN  /\ Pops(i)
            /\ ev.action = "HASHER_FIND"
            /\ \E owdCheck \in Drawn(HasherFindSamplesWindow(p, blocks, ev), OwdP2HSamples) :
                 LET ok == HasherFindValid(p, blocks, ev, owdCheck)
                 IN  /\ \E owdSend \in Drawn(ok, OwdP2HSamples) :
                            eventQueue' =
                               IF ok THEN Append(RemoveAt(eventQueue, i),
                                                 hasherFindsBlock(ev, owdSend))
                               ELSE RemoveAt(eventQueue, i)
                     /\ last' = Observe(ev, IF ok THEN "find_accept" ELSE "find_stale",
                                        owdCheck, p, Decision(p), NoId, FALSE)
            /\ diffWindows' = resourceManagement(pools, blocks, diffWindows)
            /\ UNCHANGED <<pools, blocks, loop>>

\* does the Decision ask for an id that is not already pending (lines 742-748)
RequestsNew(p, ev, res) == NewRequests(res, p.requestIds \ SeqToSet(ev.newIds)) # {}

\* the pools broadcastBlock draws an owdP2P sample for
BroadcastNoise(ev, res) ==
    {f \in [PoolIds -> OwdP2PSamples \cup {0}] :
        \A q \in PoolIds : (f[q] = 0) <=> (q = ev.poolId \/ res.broadcastIds = <<>>)}

\* the state after integrateStrategyResults returned r, and resourceManagement
Commit(i, ev, p, dec, minted, existed, r) ==
    /\ pools' = [pools EXCEPT ![ev.poolId] = r.pool]
    /\ blocks' = r.blocks
    /\ eventQueue' = RemoveAt(eventQueue, i) \o r.events
    /\ diffWindows' = resourceManagement([pools EXCEPT ![ev.poolId] = r.pool],
                                         r.blocks, r.wins)
    /\ last' = Observe(ev, "integrated", 0, p, dec, minted, existed)
    /\ UNCHANGED loop

\* processActiveEvent lines 788-792, given the Decision dec the agent returned
\* (or the throw it ended with)
Integrate(i, ev, p, blks, dec, minted, existed) ==
        IF dec.err
        THEN /\ pools' = [pools EXCEPT ![ev.poolId].scores =
                              [id \in DOMAIN p.scores |-> dec.sc[id]]]
             /\ blocks' = blks
             /\ eventQueue' = RemoveAt(eventQueue, i)
             /\ loop' = "crashed"
             /\ last' = Observe(ev, "agent_threw", 0, p, dec, minted, existed)
             /\ UNCHANGED diffWindows
        ELSE IF IntegrateThrows(p, ev, dec, blks)
        THEN /\ pools' = [pools EXCEPT ![ev.poolId].scores = dec.sc]
             /\ blocks' = blks
             /\ eventQueue' = RemoveAt(eventQueue, i)
             /\ loop' = "crashed"
             /\ last' = Observe(ev, "integrate_threw", 0, p, dec, minted, existed)
             /\ UNCHANGED diffWindows
        ELSE \E owdH \in Drawn(ChaintipChanges(p, dec), OwdP2HSamples),
                bt \in Drawn(ChaintipChanges(p, dec), BlockTimeSamples),
                owdReq \in Drawn(RequestsNew(p, ev, dec), OwdP2PSamples),
                tt \in Drawn(RequestsNew(p, ev, dec), TransTimeSamples),
                owdB \in BroadcastNoise(ev, dec) :
                Commit(i, ev, p, dec, minted, existed,
                       integrateStrategyResults(p, ev, dec, blks, diffWindows,
                           [owdP2H |-> owdH, blockTime |-> bt, owdReq |-> owdReq,
                            transTime |-> tt, owdP2P |-> owdB]))

\* the agent call and the integration of its Decision, common to both RECV events
AgentAndIntegrate(i, ev, blks, minted, existed) ==
    Integrate(i, ev, pools[ev.poolId], blks,
              invokePoolAgent(ev, pools[ev.poolId], blks), minted, existed)

\* processActiveEvent, RECV_OWN: generateBlock, then the agent
RecvOwn ==
    \E i \in 1..Len(eventQueue) :
        LET ev0 == eventQueue[i]
            p   == pools[ev0.poolId]
            id  == NewBlockId(blocks, ev0)
            ev  == [ev0 EXCEPT !.newIds = <<id>>]
        IN  /\ Pops(i)
            /\ ev0.action = "RECV_OWN"
            /\ IF GenerateBlockValid(p, blocks, ev0)
               THEN AgentAndIntegrate(i, ev, (id :> generateBlock(blocks, ev0)) @@ blocks,
                                      id, id \in DOMAIN blocks)
               ELSE /\ eventQueue' = RemoveAt(eventQueue, i)
                    /\ diffWindows' = resourceManagement(pools, blocks, diffWindows)
                    /\ last' = Observe(ev0, "own_stale", 0, p, Decision(p), NoId, FALSE)
                    /\ UNCHANGED <<pools, blocks, loop>>

\* processActiveEvent, RECV_OTHER: the agent directly
RecvOther ==
    \E i \in 1..Len(eventQueue) :
        /\ Pops(i)
        /\ eventQueue[i].action = "RECV_OTHER"
        /\ AgentAndIntegrate(i, eventQueue[i], blocks, NoId, FALSE)

\* the loop ends: pop() finds the queue empty, or the popped event lies beyond
\* simDepth (the event stays popped)
Stop ==
    /\ loop = "running"
    /\ IF eventQueue = <<>> THEN UNCHANGED eventQueue
       ELSE \E i \in 1..Len(eventQueue) :
               /\ IsTop(eventQueue, i)
               /\ eventQueue[i].simClock > simDepth
               /\ eventQueue' = RemoveAt(eventQueue, i)
    /\ loop' = "stopped"
    /\ UNCHANGED <<pools, blocks, diffWindows, last>>

Next == HasherFind \/ RecvOwn \/ RecvOther \/ Stop

Spec == Init /\ [][Next]_vars

\* The round of a selfish pool whose p.honTip is defined, as the equation test
\* gives it to executeSelfishStrategy (selfish_equation_test.js, buildTestCases):
\* a block id that has a score in p.scores, which at round start is the start
\* tip only.  P0 is honest; P1 runs any of the nine selfish configurations.
SelfishPolicies ==
    { [honest |-> FALSE, kThresh |-> k, retortPolicy |-> r] :
          k \in {1, 0, -1}, r \in {0, 1, 2} }

SelfishInit ==
    /\ \E pol \in SelfishPolicies, drift \in NtpDrifts :
          pools = [q \in PoolIds |->
                      IF q = "P0"
                      THEN initializePools(HonestPolicy, drift[q])
                      ELSE [initializePools(pol, drift[q]) EXCEPT !.honTip = startTip]]
    /\ blocks = InitBlocks
    /\ diffWindows = (startTip :> importHistoryWindow)
    /\ \E owd \in [PoolIds -> OwdP2HSamples], bt \in [PoolIds -> BlockTimeSamples] :
          eventQueue = [i \in 1..Len(PoolSeq) |->
              simulateBlockTime(PoolSeq[i], startTip, InitBlocks[startTip].simClock,
                                owd[PoolSeq[i]], bt[PoolSeq[i]])]
    /\ loop = "running"
    /\ last = [ev |-> NoEvent, prevEv |-> NoEvent, kind |-> "init", owdP2H |-> 0,
               pre |-> pools["P0"], dec |-> Decision(pools["P0"]),
               minted |-> NoId, existed |-> FALSE, rebuilt |-> FALSE]

SelfishSpec == SelfishInit /\ [][Next]_vars


-----------------------------------------------------------------------------
(* A round of three honest pools, seen from P0 and P1.  The third pool, P2,   *)
(* has mined one block; its events are not followed any further.  The state   *)
(* is the one the engine reaches when P1 has mined 4_P1, 5_P1 and 6_P1 in a   *)
(* row, P2 has received 4_P1 and mined 5_P2 on it, and none of the broadcasts *)
(* to P0 has arrived yet.  The delays are owdP2P samples (a log-normal with a *)
(* spike multiplier: any positive delay), prompt or late.                     *)

\* a late broadcast, in ticks
RelayLate == 8

\* the simClock n ticks after the round's start
RelayClock(n) == InitBlocks[startTip].simClock + n

\* noise samples of the integrations that build the state; the events they push
\* are not used
RelayNoise ==
    [owdP2H |-> 1, blockTime |-> 1, owdReq |-> 1, transTime |-> 1,
     owdP2P |-> [q \in PoolIds |-> 1]]

\* processActiveEvent lines 788-792 for a pool record p
AgentThenIntegrate(p, ev, blks, wins) ==
    integrateStrategyResults(p, ev, invokePoolAgent(ev, p, blks), blks, wins, RelayNoise)

\* the RECV_OTHER that delivers newIds to poolId at clock
Delivery(poolId, newIds, clock) ==
    [simClock |-> clock, poolId |-> poolId, action |-> "RECV_OTHER",
     chaintip |-> NoId, newIds |-> newIds]

\* pool p (of id poolId) handles the delivery of newIds in the state st
HandleOther(st, p, poolId, newIds, clock) ==
    AgentThenIntegrate(p, Delivery(poolId, newIds, clock), st.blocks, st.wins)

\* the RECV_OWN of pool p on its chaintip, with the block it mints
OwnEvent(blks, p, poolId, clock, newIds) ==
    [simClock |-> clock, poolId |-> poolId, action |-> "RECV_OWN",
     chaintip |-> p.chaintip, newIds |-> newIds]

\* generateBlock and the agent call for the RECV_OWN ev0 that mints id
MintAndHandle(st, p, ev0, id) ==
    AgentThenIntegrate(p, [ev0 EXCEPT !.newIds = <<id>>],
                       (id :> generateBlock(st.blocks, ev0)) @@ st.blocks, st.wins)

\* pool p (of id poolId) mints on its chaintip in the state st
HandleOwn(st, p, poolId, clock) ==
    MintAndHandle(st, p, OwnEvent(st.blocks, p, poolId, clock, <<>>),
                  NewBlockId(st.blocks, OwnEvent(st.blocks, p, poolId, clock, <<>>)))

RelayStart ==
    [pool |-> initializePools(HonestPolicy, 0), blocks |-> InitBlocks,
     wins |-> (startTip :> importHistoryWindow), events |-> <<>>]

\* The state is built event by event, each stage handing its result to the next:
\* P1 mints 4_P1; P2 receives it; P1 mints 5_P1 and 6_P1; P2 mints 5_P2.
\* The result is P1's pool and the state (blocks, wins) after the last event.
RelayP2Mints(p2Hears, p1Third) ==
    [p1 |-> p1Third.pool, st |-> HandleOwn(p1Third, p2Hears.pool, "P2", RelayClock(4))]

RelayP1Third(p2Hears, p1Second) ==
    RelayP2Mints(p2Hears, HandleOwn(p1Second, p1Second.pool, "P1", RelayClock(3)))

RelayP1Second(p1First, p2Hears) ==
    RelayP1Third(p2Hears, HandleOwn(p2Hears, p1First.pool, "P1", RelayClock(2)))

RelayP2Hears(p1First) ==
    RelayP1Second(p1First,
        HandleOther(p1First, initializePools(HonestPolicy, 0), "P2",
                    <<BlockId(startTip[1] + 1, "P1")>>, RelayClock(2)))

RelayBuilt ==
    RelayP2Hears(HandleOwn(RelayStart, initializePools(HonestPolicy, 1), "P1",
                           RelayClock(1)))

RelayPools(p1) ==
    [q \in PoolIds |-> IF q = "P0" THEN initializePools(HonestPolicy, 0) ELSE p1]

\* the delays a broadcast sent at `sent` may have had when it is still in flight
\* at `now`
RelayDelays(sent, now) == {d \in {1, RelayLate} : sent + d >= now}

\* the round with the state r built above: P0 and P1 have their block timers
\* running, and the four blocks are on their way to P0, 5_P2 also to P1
RelayInitWith(r) ==
    /\ pools = RelayPools(r.p1)
    /\ blocks = r.st.blocks
    /\ diffWindows = resourceManagement(RelayPools(r.p1), r.st.blocks, r.st.wins)
    /\ \E owd \in [PoolIds -> OwdP2HSamples], bt \in [PoolIds -> BlockTimeSamples],
          dY \in RelayDelays(RelayClock(1), RelayClock(4)),
          dZ \in RelayDelays(RelayClock(2), RelayClock(4)),
          dW \in RelayDelays(RelayClock(3), RelayClock(4)),
          dX \in [PoolIds -> RelayDelays(RelayClock(4), RelayClock(4))] :
          /\ RelayClock(0) + owd["P0"] + bt["P0"] >= RelayClock(4)
          /\ eventQueue =
               << simulateBlockTime("P0", startTip, RelayClock(0), owd["P0"], bt["P0"]),
                  simulateBlockTime("P1", r.p1.chaintip, RelayClock(3),
                                    owd["P1"], bt["P1"]),
                  Delivery("P0", <<BlockId(startTip[1] + 1, "P1")>>, RelayClock(1) + dY),
                  Delivery("P0", <<BlockId(startTip[1] + 2, "P1")>>, RelayClock(2) + dZ),
                  Delivery("P0", <<BlockId(startTip[1] + 3, "P1")>>, RelayClock(3) + dW),
                  Delivery("P0", <<BlockId(startTip[1] + 2, "P2")>>, RelayClock(4) + dX["P0"]),
                  Delivery("P1", <<BlockId(startTip[1] + 2, "P2")>>, RelayClock(4) + dX["P1"]) >>
    /\ loop = "running"
    /\ last = [ev |-> NoEvent, prevEv |-> NoEvent, kind |-> "init", owdP2H |-> 0,
               pre |-> pools["P0"], dec |-> Decision(pools["P0"]),
               minted |-> NoId, existed |-> FALSE, rebuilt |-> FALSE]

RelayInit == RelayInitWith(RelayBuilt)

RelaySpec == RelayInit /\ [][Next]_vars

-----------------------------------------------------------------------------
(* A round of two honest pools and a selfish one, seen from P0 and P1.  The   *)
(* honest pool P2 has mined 4_P2 and 5_P2 in a row; the honest pool P0 has    *)
(* mined 4_P0 before it heard of either; the selfish pool P1, whose honTip is *)
(* the start tip as in SelfishSpec, has mined nothing yet.  The broadcasts    *)
(* are on their way, P0's to P1 prompt or late; P0 is in a long block time.   *)
(* P2's events are not followed further, and the cache holds only the windows *)
(* that P0 and P1 keep, as when P2 has mined on ahead.                        *)

\* P2 mints 4_P2 and 5_P2, then P0 mints 4_P0 on the start tip: P0's pool and
\* the state (blocks, wins) after the last event
LateForkBuilt ==
    LET first  == HandleOwn(RelayStart, initializePools(HonestPolicy, 0), "P2",
                            RelayClock(1))
        second == HandleOwn(first, first.pool, "P2", RelayClock(2))
    IN  HandleOwn(second, initializePools(HonestPolicy, 0), "P0", RelayClock(2))

\* the round with the state r built above: P0 and P1 have their block timers
\* running, the three blocks are on their way to P1 and P2's two to P0
LateForkInitWith(r, pls) ==
    /\ pools = pls
    /\ blocks = r.blocks
    /\ diffWindows = resourceManagement(pls, r.blocks, r.wins)
    /\ \E owd \in [PoolIds -> {1}], bt \in [PoolIds -> BlockTimeSamples],
          d4 \in [PoolIds -> {1}], d5 \in [PoolIds -> {1}], d0 \in OwdP2PSamples :
          /\ RelayClock(0) + owd["P1"] + bt["P1"] >= RelayClock(2)
          /\ bt["P0"] = LongBlockTime
          /\ eventQueue =
               << simulateBlockTime("P0", r.pool.chaintip, RelayClock(2),
                                    owd["P0"], bt["P0"]),
                  simulateBlockTime("P1", startTip, RelayClock(0), owd["P1"], bt["P1"]),
                  Delivery("P0", <<BlockId(startTip[1] + 1, "P2")>>,
                           RelayClock(1) + d4["P0"]),
                  Delivery("P0", <<BlockId(startTip[1] + 2, "P2")>>,
                           RelayClock(2) + d5["P0"]),
                  Delivery("P1", <<BlockId(startTip[1] + 1, "P2")>>,
                           RelayClock(1) + d4["P1"]),
                  Delivery("P1", <<BlockId(startTip[1] + 2, "P2")>>,
                           RelayClock(2) + d5["P1"]),
                  Delivery("P1", <<BlockId(startTip[1] + 1, "P0")>>, RelayClock(2) + d0) >>
    /\ loop = "running"
    /\ last = [ev |-> NoEvent, prevEv |-> NoEvent, kind |-> "init", owdP2H |-> 0,
               pre |-> pools["P0"], dec |-> Decision(pools["P0"]),
               minted |-> NoId, existed |-> FALSE, rebuilt |-> FALSE]

LateForkInit ==
    \E pol \in {c \in SelfishPolicies : c.kThresh = 1 /\ c.retortPolicy = 1} :
        LateForkInitWith(LateForkBuilt,
            [q \in PoolIds |->
                IF q = "P0" THEN LateForkBuilt.pool
                ELSE [initializePools(pol, 1) EXCEPT !.honTip = startTip]])

LateForkSpec == LateForkInit /\ [][Next]_vars

-----------------------------------------------------------------------------
(* A round in whose queue a RECV_OTHER with an empty newIds list waits: the   *)
(* agent's contract takes any event with a newIds array.  The engine itself   *)
(* pushes a RECV_OTHER only for a non-empty list, so the event is put in the  *)
(* queue at the start, at a clock where it ties with no other delivery:       *)
(* before the first broadcast can arrive, or after every reachable event.     *)

\* the clocks of the empty delivery, in ticks after the start tip
EmptyClocks == {1, 2, 3 * SimDepthTicks}

EmptyInit ==
    /\ \E pol \in [PoolIds -> Policies], drift \in NtpDrifts :
          /\ pol["P0"].honest
          /\ pools = [q \in PoolIds |-> initializePools(pol[q], drift[q])]
    /\ blocks = InitBlocks
    /\ diffWindows = (startTip :> importHistoryWindow)
    /\ \E owd \in [PoolIds -> OwdP2HSamples], bt \in [PoolIds -> BlockTimeSamples],
          q \in PoolIds, c \in EmptyClocks :
          eventQueue = [i \in 1..Len(PoolSeq) |->
              simulateBlockTime(PoolSeq[i], startTip, InitBlocks[startTip].simClock,
                                owd[PoolSeq[i]], bt[PoolSeq[i]])]
              \o <<Delivery(q, <<>>, RelayClock(c))>>
    /\ loop = "running"
    /\ last = [ev |-> NoEvent, prevEv |-> NoEvent, kind |-> "init", owdP2H |-> 0,
               pre |-> pools["P0"], dec |-> Decision(pools["P0"]),
               minted |-> NoId, existed |-> FALSE, rebuilt |-> FALSE]

EmptySpec == EmptyInit /\ [][Next]_vars

-----------------------------------------------------------------------------
(* calculateNextDifficulty as a function of its window and its configuration. *)
(* The round is at rest; the cache holds one window under the start tip, the  *)
(* observation holds the configuration and, once computed, the result.  The   *)
(* cumulative difficulties of a window grow along it (every block adds a      *)
(* difficulty of at least 1); the timestamps are what the pools chose.        *)

MaxWindowLen == 3     \* longest window
MaxTimestamp == 2     \* largest timestamp of a window entry
MaxDiffWindow == 3    \* largest DIFFICULTY_WINDOW
MaxDiffLag == 2       \* largest DIFFICULTY_LAG

\* the windows of n entries whose last cumulative difficulty is below cum + 2n
RECURSIVE WindowsFrom(_, _)
WindowsFrom(n, cum) ==
    IF n = 0 THEN {<<>>}
    ELSE {<<[timestamp |-> t, cumDifficulty |-> cum + d]>> \o w :
             t \in 0..MaxTimestamp, d \in {1, 2}, w \in WindowsFrom(n - 1, cum + 2)}

\* sim.diffWindow, sim.diffCut, sim.diffLag and sim.diffTarget, with W > 2 * Cut
DiffConfigs ==
    {c \in [W : 1..MaxDiffWindow, C : {0, 1}, L : 0..MaxDiffLag, T : {1, 2}] :
        c.W > 2 * c.C}

DiffInit ==
    /\ pools = [q \in PoolIds |-> initializePools(HonestPolicy, 0)]
    /\ blocks = InitBlocks
    /\ \E n \in 0..MaxWindowLen : \E w \in WindowsFrom(n, 0) :
          diffWindows = (startTip :> w)
    /\ eventQueue = <<>>
    /\ loop = "stopped"
    /\ \E c \in DiffConfigs :
          last = [kind |-> "configured", cfg |-> c, out |-> 0, span |-> 0]

\* calculateNextDifficulty(startTip) under the configuration
Calculate ==
    /\ last.kind = "configured"
    /\ last' = [last EXCEPT
                  !.kind = "calculated",
                  !.out  = NextDifficultyOf(diffWindows[startTip], last.cfg.W,
                                            last.cfg.C, last.cfg.L, last.cfg.T),
                  !.span = IF Len(SortedWindow(diffWindows[startTip],
                                               last.cfg.W, last.cfg.L)) <= 1
                           THEN 1
                           ELSE TimeSpanOf(SortedWindow(diffWindows[startTip],
                                                        last.cfg.W, last.cfg.L),
                                           last.cfg.W, last.cfg.C)]
    /\ UNCHANGED <<pools, blocks, diffWindows, eventQueue, loop>>

DiffSpec == DiffInit /\ [][Calculate]_vars

-----------------------------------------------------------------------------
(* calculateMetrics of config_init.js, on the pools of a finished round. *)

\* calculateMetrics, the reorg walk over the first k scores of pool p in
\* insertion order: reorgDepth and reorgList after them
RECURSIVE ReorgWalk(_, _)
ReorgWalk(p, k) ==
    IF k = 0 THEN [reorgDepth |-> 0, reorgList |-> <<>>]
    ELSE LET w     == ReorgWalk(p, k - 1)
             id    == p.order[k]
             score == p.scores[id]
         IN  IF score.isHeadPath
             THEN IF id = score.chaintip /\ w.reorgDepth > 0
                  THEN [reorgDepth |-> 0, reorgList |-> Append(w.reorgList, w.reorgDepth)]
                  ELSE w
             ELSE IF id = score.chaintip
                  THEN [w EXCEPT !.reorgDepth = @ + 1]
                  ELSE w

-----------------------------------------------------------------------------
(* The rounds of one run: main() and callOrchestrationWorker of main.js with  *)
(* the worker of each round (orchestrateRound, exitOrchestrationWorker and    *)
(* the crash handlers of config_init.js).  Here the variables hold the run,   *)
(* not one round: pools holds `jobs`, one record per round index with the     *)
(* worker and the promise of callOrchestrationWorker; eventQueue holds the    *)
(* round indices recordResultsToCSV has written to `streams`, in order; loop  *)
(* is the for loop of main(); last holds the index main() awaits and, as      *)
(* observation, the order in which the workers exited.                        *)

SimRounds == 3     \* CONFIG.env.simRounds
Workers == 2       \* CONFIG.env.workers

Rounds == 0..(SimRounds - 1)

jobs == pools
streams == eventQueue

\* a job whose limit() callback has not run yet
QueuedJob ==
    [worker |-> "queued", has_exited |-> FALSE, posted |-> 0, exit_code |-> Null,
     hit |-> "none", result |-> FALSE, promise |-> "pending", errResult |-> FALSE]

OrchInit ==
    /\ pools = [idx \in Rounds |-> QueuedJob]
    /\ blocks = InitBlocks
    /\ diffWindows = <<>>
    /\ eventQueue = <<>>
    /\ loop = "running"
    /\ last = [kind |-> "main", idx |-> 0, exits |-> <<>>]

\* an exitOrchestrationWorker without the has_exited guard
exitOrchestrationWorkerUnguarded(j, exit_code) ==
    [j EXCEPT !.has_exited = TRUE, !.posted = @ + 1, !.result = TRUE,
              !.worker = "exiting",
              !.exit_code = IF j.worker = "exiting" THEN @ ELSE exit_code]

\* exitOrchestrationWorker(exit_code, results): one postMessage, which the
\* once('message') listener of main stores in `result`, then process.exit
\* from a setImmediate
exitOrchestrationWorker(j, exit_code) ==
    IF j.has_exited THEN j
    ELSE [j EXCEPT !.has_exited = TRUE, !.posted = @ + 1, !.result = TRUE,
                   !.worker = "exiting", !.exit_code = exit_code]

\* the 'exit' listener of callOrchestrationWorker settles the promise
SettlePromise(j, code) ==
    IF code = 0
    THEN [j EXCEPT !.worker = "exited", !.exit_code = code,
                   !.promise = IF j.result THEN "resolved" ELSE "rejected"]
    ELSE [j EXCEPT !.worker = "exited", !.exit_code = code,
                   !.promise = "rejected", !.errResult = j.result]

\* pLimit(workers): the queued jobs start in index order, at most `workers`
\* of them unsettled at a time
StartWorker ==
    \E idx \in Rounds :
        /\ loop # "cancelled"
        /\ jobs[idx].worker = "queued"
        /\ \A k \in Rounds : k < idx => jobs[k].worker # "queued"
        /\ Cardinality({k \in Rounds : jobs[k].worker \in {"running", "exiting"}}) < Workers
        /\ pools' = [pools EXCEPT ![idx].worker = "running"]
        /\ UNCHANGED <<blocks, diffWindows, eventQueue, loop, last>>

\* orchestrateRound reaches its last line: exitOrchestrationWorker(0, results)
FinishRound ==
    \E idx \in Rounds :
        /\ loop # "cancelled"
        /\ jobs[idx].worker = "running"
        /\ pools' = [pools EXCEPT ![idx] = exitOrchestrationWorker(@, 0)]
        /\ UNCHANGED <<blocks, diffWindows, eventQueue, loop, last>>

\* an uncaughtException or unhandledRejection in the worker, while the round
\* runs or after the normal exit path has posted and before process.exit
CrashHandler ==
    \E idx \in Rounds :
        /\ loop # "cancelled"
        /\ jobs[idx].worker \in {"running", "exiting"}
        /\ jobs[idx].hit = "none"
        /\ pools' = [pools EXCEPT ![idx] =
                        exitOrchestrationWorker(
                            [@ EXCEPT !.hit = IF jobs[idx].worker = "running"
                                              THEN "error" ELSE "late_error"], 1)]
        /\ UNCHANGED <<blocks, diffWindows, eventQueue, loop, last>>

\* the setImmediate of exitOrchestrationWorker: process.exit(exit_code)
WorkerExit ==
    \E idx \in Rounds :
        /\ loop # "cancelled"
        /\ jobs[idx].worker = "exiting"
        /\ pools' = [pools EXCEPT ![idx] = SettlePromise(@, @.exit_code)]
        /\ last' = [last EXCEPT !.exits = Append(@, idx)]
        /\ UNCHANGED <<blocks, diffWindows, eventQueue, loop>>

\* the worker exceeds resourceLimits.maxOldGenerationSizeMb: it is terminated
\* with a non-zero code and has posted nothing
KilledByRam ==
    \E idx \in Rounds :
        /\ loop # "cancelled"
        /\ jobs[idx].worker = "running"
        /\ pools' = [pools EXCEPT ![idx] = SettlePromise([@ EXCEPT !.hit = "ram"], 1)]
        /\ last' = [last EXCEPT !.exits = Append(@, idx)]
        /\ UNCHANGED <<blocks, diffWindows, eventQueue, loop>>

\* a main() that takes the jobs as they settle
AwaitedAny(idx) == idx \notin SeqToSet(streams)

\* the job main() awaits
Awaited(idx) == idx = last.idx

\* one pass of the for loop of main(): the awaited promise resolved, the
\* result is recorded; after the last job, gracefulShutdown
MainRecord ==
    \E idx \in Rounds :
        /\ loop = "running"
        /\ Awaited(idx)
        /\ jobs[idx].promise = "resolved"
        /\ eventQueue' = Append(streams, idx)
        /\ last' = [last EXCEPT !.idx = @ + 1]
        /\ loop' = IF last.idx + 1 = SimRounds THEN "stopped" ELSE "running"
        /\ UNCHANGED <<pools, blocks, diffWindows>>

\* one pass of the for loop of main(): the awaited promise rejected, the
\* result the error carries is recorded, and the loop breaks
MainFail ==
    \E idx \in Rounds :
        /\ loop = "running"
        /\ Awaited(idx)
        /\ jobs[idx].promise = "rejected"
        /\ eventQueue' = IF jobs[idx].errResult THEN Append(streams, idx) ELSE streams
        /\ loop' = "stopped"
        /\ UNCHANGED <<pools, blocks, diffWindows, last>>

\* SIGINT or SIGTERM: gracefulShutdown, then process.exit(0) ends the workers
Cancel ==
    /\ loop = "running"
    /\ loop' = "cancelled"
    /\ pools' = [idx \in Rounds |->
                    IF jobs[idx].worker \in {"running", "exiting"}
                    THEN [jobs[idx] EXCEPT !.worker = "exited",
                                           !.hit = IF @ = "none" THEN "cancel" ELSE @]
                    ELSE jobs[idx]]
    /\ UNCHANGED <<blocks, diffWindows, eventQueue, last>>

OrchNext ==
    \/ StartWorker \/ FinishRound \/ CrashHandler \/ WorkerExit \/ KilledByRam
    \/ MainRecord \/ MainFail \/ Cancel

OrchSpec == OrchInit /\ [][OrchNext]_vars

-----------------------------------------------------------------------------
(* Properties *)

\* a step of the loop that handles an event (Stop only ends the loop)
HandlesEvent == loop = "running" /\ loop' # "stopped"

\* the queue q without one occurrence of the event e
QueueWithout(q, e) == {RemoveAt(q, i) : i \in {j \in 1..Len(q) : q[j] = e}}

\* the prev-chain from id back to the round's start tip
RECURSIVE PrevChain(_, _)
PrevChain(blks, id) ==
    IF id = startTip \/ id \notin DOMAIN blks THEN {id}
    ELSE {id} \cup PrevChain(blks, blks[id].prevId)

HeadPathIds(p) == {id \in DOMAIN p.scores : p.scores[id].isHeadPath}

\* C1: after every event, for every pool, the scores marked isHeadPath are exactly
\* the blocks of the prev-chain from the start tip up to the pool's chaintip.
C1_HeadPathIsChain ==
    \A q \in PoolIds : HeadPathIds(pools[q]) = PrevChain(blocks, pools[q].chaintip)

\* a reorg has just happened: the pool's old chaintip is scored and orphaned
C1_Witness_Reorg ==
    /\ last.kind = "integrated"
    /\ last.pre.chaintip # startTip
    /\ last.pre.chaintip \notin PrevChain(blocks, pools[last.ev.poolId].chaintip)
    /\ ~ pools[last.ev.poolId].scores[last.pre.chaintip].isHeadPath

\* the agent has been called for the event handled last
AgentCalled == last.kind \in {"integrated", "agent_threw", "integrate_threw"}

\* C2: a call to the pool agent leaves every existing entry of p.scores as it
\* was before the call (the agent never writes the block table: invokePoolAgent
\* returns no block).
C2_AgentLeavesScoresUntouched ==
    AgentCalled =>
        \A id \in DOMAIN last.pre.scores : last.dec.sc[id] = last.pre.scores[id]

\* C3: every queued event is no earlier than the event handled last, and the
\* event handled last is no earlier than the one handled before it.
C3_SimClockMonotone ==
    /\ last.ev.action # "none" =>
          \A i \in 1..Len(eventQueue) : eventQueue[i].simClock >= last.ev.simClock
    /\ last.prevEv.action # "none" => last.ev.simClock >= last.prevEv.simClock

\* a RECV_OWN has been integrated and the RECV_OTHER it broadcast is queued
C3_Witness_Pushed ==
    /\ last.kind = "integrated"
    /\ last.prevEv.action # "none"
    /\ last.dec.broadcastIds # <<>>
    /\ \E i \in 1..Len(eventQueue) :
          /\ eventQueue[i].action = "RECV_OTHER"
          /\ eventQueue[i].newIds = last.dec.broadcastIds
          /\ eventQueue[i].simClock > last.ev.simClock

\* C4: two events dispatched one after the other at the same simClock come in
\* tie-break order: the lexically smaller pool id first and, for one pool,
\* never a RECV_OTHER before a RECV_OWN.
C4_TieBreakOrder ==
    (last.prevEv.action # "none" /\ last.ev.simClock = last.prevEv.simClock) =>
        \/ PoolOrd(last.prevEv.poolId) < PoolOrd(last.ev.poolId)
        \/ /\ last.prevEv.poolId = last.ev.poolId
           /\ ~ (last.prevEv.action = "RECV_OTHER" /\ last.ev.action = "RECV_OWN")

\* one pool's RECV_OWN and RECV_OTHER at the same simClock, dispatched in a row
C4_Witness_SamePoolTie ==
    /\ last.ev.simClock = last.prevEv.simClock
    /\ last.ev.poolId = last.prevEv.poolId
    /\ last.prevEv.action = "RECV_OWN"
    /\ last.ev.action = "RECV_OTHER"

C6_BlocksFrozen ==
    [][\A id \in DOMAIN blocks :
          /\ id \in DOMAIN blocks'
          /\ blocks[id].nxtDifficulty # Null =>
                [blocks'[id] EXCEPT !.broadcast = blocks[id].broadcast] = blocks[id]
      ]_vars

\* a second minted block has got its nxtDifficulty while the first one, whose
\* nxtDifficulty was set by an earlier event, is still in the table
C6_Witness_LaterEvent ==
    /\ last.kind = "integrated"
    /\ last.minted # NoId
    /\ blocks[last.minted].nxtDifficulty # Null
    /\ \E id \in DOMAIN blocks :
          /\ id # last.minted
          /\ blocks[id].poolId \in PoolIds
          /\ blocks[id].nxtDifficulty # Null

\* C7: a HASHER_FIND e of pool p pushes a RECV_OWN for the same pool and chaintip
\* iff e.chaintip = p.chaintip, or e.chaintip = prev(p.chaintip) and
\* e.simClock <= p.scores[p.chaintip].simClock + owdP2H; otherwise e is dropped
\* and no pool, block or other queued event changes.
C7_HasherFindAcceptsIff ==
    [][(HandlesEvent /\ last'.ev.action = "HASHER_FIND") =>
          LET e == last'.ev
              p == pools[e.poolId]
              fresh == \/ e.chaintip = p.chaintip
                       \/ /\ e.chaintip = blocks[p.chaintip].prevId
                          /\ e.simClock <= p.scores[p.chaintip].simClock + last'.owdP2H
          IN  /\ pools' = pools
              /\ blocks' = blocks
              /\ loop' = "running"
              /\ IF fresh
                 THEN \E q \in QueueWithout(eventQueue, e), d \in OwdP2HSamples :
                         eventQueue' = Append(q, [simClock |-> e.simClock + d,
                                                  poolId |-> e.poolId,
                                                  action |-> "RECV_OWN",
                                                  chaintip |-> e.chaintip,
                                                  newIds |-> <<>>])
                 ELSE eventQueue' \in QueueWithout(eventQueue, e)
      ]_vars

\* a find on the parent of the pool's chaintip was accepted inside the window
C7_Witness_WindowAccept ==
    /\ last.kind = "find_accept"
    /\ last.ev.chaintip # last.pre.chaintip
    /\ last.ev.chaintip = blocks[last.pre.chaintip].prevId
    /\ last.ev.simClock <= last.pre.scores[last.pre.chaintip].simClock + last.owdP2H

\* C8, as stated: a RECV_OWN that mints passes the staleness check of
\* hasherFindsBlock, window included, for some owdP2H sample.
C8_Original_SameCheckAsHasher ==
    (last.ev.action = "RECV_OWN" /\ last.minted # NoId) =>
        \E d \in OwdP2HSamples : HasherFindValid(last.pre, blocks, last.ev, d)

\* C8, amended: generateBlock tests only whether the event's chaintip is the
\* pool's chaintip or its parent (no timing window).  A RECV_OWN that fails the
\* test mints nothing, calls no agent and changes no pool, block or other
\* queued event; one that passes mints the block `${height + 1}_${poolId}`.
C8_GenerateBlockTipCheckOnly ==
    [][(HandlesEvent /\ last'.ev.action = "RECV_OWN") =>
          LET e == last'.ev
              p == pools[e.poolId]
              fresh == \/ e.chaintip = p.chaintip
                       \/ e.chaintip = blocks[p.chaintip].prevId
          IN  IF fresh
              THEN /\ last'.kind # "own_stale"
                   /\ last'.minted = BlockId(blocks[e.chaintip].height + 1, e.poolId)
                   /\ last'.minted \in DOMAIN blocks'
                   /\ blocks'[last'.minted].prevId = e.chaintip
              ELSE /\ last'.kind = "own_stale"
                   /\ last'.minted = NoId
                   /\ pools' = pools
                   /\ blocks' = blocks
                   /\ loop' = "running"
                   /\ eventQueue' \in QueueWithout(eventQueue, e)
      ]_vars

\* a stale RECV_OWN has been dropped
C8_Witness_StaleOwn == last.kind = "own_stale" /\ last.ev.action = "RECV_OWN"

\* C9: the block a RECV_OWN minted carries, when the event ends, the timestamp
\* the agent returned (non-null), its window is the parent's window without the
\* oldest entry plus its own {timestamp, cumDifficulty}, and its nxtDifficulty
\* (non-null) is computed from that window.
C9_MintedBlockStamped ==
    last.minted # NoId =>
        LET b == blocks[last.minted]
        IN  /\ b.timestamp # Null
            /\ b.nxtDifficulty # Null
            /\ b.timestamp = last.dec.timestamp
            /\ diffWindows[last.minted] =
                  ExtendWindow(diffWindows[b.prevId], b.timestamp, b.cumDifficulty)
            /\ b.nxtDifficulty = calculateNextDifficulty(diffWindows[last.minted])

\* the freshly scored blocks of the Decision handled last
FreshlyScored ==
    {id \in DOMAIN last.dec.sc :
        /\ last.dec.sc[id].cumDiffScore # Null
        /\ id \notin DOMAIN last.pre.scores \/ last.pre.scores[id].cumDiffScore = Null}

\* C10: an honest Decision takes the best freshly scored block when it beats the
\* pool's chaintip, keeps the chaintip when it does not, takes the pool's own new
\* block on a RECV_OWN tie; on RECV_OWN the timestamp is the new score's
\* localTime and broadcastIds is [the new block].
C10_HonestDecision ==
    (last.kind = "integrated" /\ last.pre.honest /\ last.dec.hasScores) =>
        LET p == last.pre
            d == last.dec
            tipScore == p.scores[p.chaintip].cumDiffScore
            best == {id \in FreshlyScored :
                        \A o \in FreshlyScored :
                            d.sc[o].cumDiffScore <= d.sc[id].cumDiffScore}
            bestScore == IF best = {} THEN 0
                         ELSE d.sc[CHOOSE id \in best : TRUE].cumDiffScore
        IN  /\ bestScore > tipScore => d.chaintip \in best
            /\ bestScore < tipScore => d.chaintip = p.chaintip
            /\ bestScore = tipScore =>
                  d.chaintip = IF last.ev.action = "RECV_OWN" THEN last.minted
                               ELSE p.chaintip
            /\ last.ev.action = "RECV_OWN" =>
                  /\ d.timestamp = d.sc[last.minted].localTime
                  /\ d.broadcastIds = <<last.minted>>
            /\ last.ev.action = "RECV_OTHER" => d.timestamp = Null

\* an honest pool's own new block ties with its chaintip and is taken
C10_Witness_OwnTie ==
    /\ last.kind = "integrated"
    /\ last.pre.honest
    /\ last.ev.action = "RECV_OWN"
    /\ last.dec.sc[last.minted].cumDiffScore
          = last.pre.scores[last.pre.chaintip].cumDiffScore
    /\ last.dec.chaintip = last.minted

\* the blocks a pool holds without a score
Unscored(p) == {id \in DOMAIN p.scores : p.scores[id].cumDiffScore = Null}

\* C18: a block received before its parent puts the missing ancestors into
\* p.requestIds, with a RECV_OTHER delivering them queued for that pool; once
\* the ancestors are scored in p.scores no block descending from them stays
\* without a score (after every event, the parent of an unscored block is unknown
\* or unscored itself); and no step raises an error.
C18_MissingAncestorsResolved ==
    /\ loop # "crashed"
    /\ last.kind = "integrated" =>
          last.dec.requestIds \subseteq pools[last.ev.poolId].requestIds
    /\ loop = "running" =>
          \A q \in PoolIds : \A id \in pools[q].requestIds :
             \E i \in 1..Len(eventQueue) :
                /\ eventQueue[i].action = "RECV_OTHER"
                /\ eventQueue[i].poolId = q
                /\ InSeq(id, eventQueue[i].newIds)
    /\ \A q \in PoolIds : \A id \in Unscored(pools[q]) :
          \/ blocks[id].prevId \notin DOMAIN pools[q].scores
          \/ pools[q].scores[blocks[id].prevId].cumDiffScore = Null

\* the events a step has pushed (the handled event leaves the queue, the pushes
\* go to its end)
Pushed == SubSeq(eventQueue', Len(eventQueue), Len(eventQueue'))

\* the request events among them: a RECV_OTHER a pool addresses to itself
RequestEvents(q) ==
    SelectSeq(Pushed, LAMBDA e : e.action = "RECV_OTHER" /\ e.poolId = q)

\* C19: a missing block is requested at most once while outstanding: an id in
\* p.requestIds is never put into a second request event; the newly requested ids
\* of one Decision go to the requesting pool in a single RECV_OTHER, in ascending
\* height; an id leaves p.requestIds only when an event delivering it to that
\* pool is processed.
C19_RequestedOnce ==
    [][HandlesEvent =>
          \A q \in PoolIds :
             LET handled == last'.kind = "integrated" /\ last'.ev.poolId = q
                 reqs    == IF handled THEN RequestEvents(q) ELSE <<>>
                 asked   == IF handled THEN last'.dec.requestIds \ pools[q].requestIds
                            ELSE {}
             IN  /\ pools[q].requestIds \ pools'[q].requestIds \subseteq
                       (IF handled THEN SeqToSet(last'.ev.newIds) ELSE {})
                 /\ pools'[q].requestIds \ pools[q].requestIds = asked
                 /\ asked \cap DOMAIN pools'[q].scores = {}
                 /\ (pools[q].requestIds \ pools'[q].requestIds)
                        \subseteq DOMAIN pools'[q].scores
                 /\ Len(reqs) = IF asked = {} THEN 0 ELSE 1
                 /\ \A i \in 1..Len(reqs) :
                       /\ SeqToSet(reqs[i].newIds) = asked
                       /\ Len(reqs[i].newIds) = Cardinality(asked)
                       /\ \A j \in 1..(Len(reqs[i].newIds) - 1) :
                             blocks[reqs[i].newIds[j]].height
                                < blocks[reqs[i].newIds[j + 1]].height
      ]_vars

\* a Decision has asked for an id that was already outstanding, together with
\* a new one
C19_Witness_AskedAgain ==
    /\ last.kind = "integrated"
    /\ last.dec.requestIds \cap last.pre.requestIds # {}
    /\ last.dec.requestIds \ last.pre.requestIds # {}
    /\ pools[last.ev.poolId].requestIds = last.pre.requestIds \cup last.dec.requestIds

\* p.unscored holds exactly the ids of p.scores without a cumDiffScore, each once
UnscoredExact(p) ==
    /\ SeqToSet(p.unscored) = Unscored(p)
    /\ Len(p.unscored) = Cardinality(Unscored(p))

\* C20: after every event p.unscored contains exactly the ids of p.scores whose
\* cumDiffScore is null: an id enters when it is recorded unscored and leaves as
\* soon as it has a score; and no id is ever removed from p.scores.
C20_UnscoredTracksScores ==
    [][\A q \in PoolIds :
          /\ UnscoredExact(pools[q])
          /\ UnscoredExact(pools'[q])
          /\ DOMAIN pools[q].scores \subseteq DOMAIN pools'[q].scores
      ]_vars

\* the second Decision dec2 on the event ev changes nothing of the pool p, the
\* block table and the window cache, and pushes no event
NoOpAgain(p, ev, dec2, blks, wins) ==
    /\ ~ dec2.err
    /\ ~ IntegrateThrows(p, ev, dec2, blks)
    /\ dec2.chaintip = p.chaintip
    /\ dec2.honTip \in {NoId, p.honTip}
    /\ ~ Truthy(dec2.timestamp)
    /\ dec2.broadcastIds = <<>>
    /\ NewRequests(dec2, p.requestIds \ SeqToSet(ev.newIds)) = {}
    /\ integrateStrategyResults(p, ev, dec2, blks, wins, RelayNoise)
          = [pool |-> p, blocks |-> blks, wins |-> wins, events |-> <<>>]

\* C21: when the Decision of an event has been integrated and the agent is invoked
\* again on the same event, integrating the second Decision changes nothing: same
\* chaintip and honTip, no score change, no timestamp, no broadcast, no request,
\* no new queued event.
C21_SecondInvocationNoOp ==
    last.kind = "integrated" =>
        NoOpAgain(pools[last.ev.poolId], last.ev,
                  invokePoolAgent(last.ev, pools[last.ev.poolId], blocks),
                  blocks, diffWindows)

\* the first Decision stamped, broadcast and moved the chaintip
C21_Witness_FirstDecisionActed ==
    /\ last.kind = "integrated"
    /\ Truthy(last.dec.timestamp)
    /\ last.dec.broadcastIds # <<>>
    /\ last.dec.chaintip # last.pre.chaintip
    /\ AlreadyScored(pools[last.ev.poolId], Last(last.ev.newIds))

DeliveriesOf(q, ids) ==
    SelectSeq(Pushed, LAMBDA e : /\ e.action = "RECV_OTHER" /\ e.poolId = q
                                 /\ SeqToSet(e.newIds) \cap ids # {})

\* newIds holds exactly the ids, each once, in ascending height
AscendingOf(blks, newIds, ids) ==
    /\ SeqToSet(newIds) = ids
    /\ Len(newIds) = Cardinality(ids)
    /\ \A j \in 1..(Len(newIds) - 1) :
          blks[newIds[j]].height < blks[newIds[j + 1]].height

ScoredOnParent(p, blks, id) ==
    /\ blks[id].prevId \in DOMAIN p.scores
    /\ p.scores[blks[id].prevId].cumDiffScore # Null
    /\ p.scores[id].cumDiffScore
          = p.scores[id].diffScore + p.scores[blks[id].prevId].cumDiffScore

\* C24 as stated: every id of p.scores with a cumDiffScore, the start tip
\* included, has a scored parent in p.scores and
\* cumDiffScore(id) = diffScore(id) + cumDiffScore(prev(id)).
C24_Original_EveryScoredId ==
    \A q \in PoolIds : \A id \in DOMAIN pools[q].scores \ Unscored(pools[q]) :
        ScoredOnParent(pools[q], blocks, id)

\* C24, amended: every id of p.scores other than the round's start tip that has
\* a cumDiffScore has a scored parent in p.scores and
\* cumDiffScore(id) = diffScore(id) + cumDiffScore(prev(id)).
C24_ScoreChain ==
    \A q \in PoolIds :
        \A id \in (DOMAIN pools[q].scores \ Unscored(pools[q])) \ {startTip} :
            ScoredOnParent(pools[q], blocks, id)

\* a block the pool held unscored has been scored on its delivered parent
C24_Witness_HeldBlockScored ==
    /\ last.kind = "integrated"
    /\ \E id \in SeqToSet(last.pre.unscored) :
          /\ pools[last.ev.poolId].scores[id].cumDiffScore # Null
          /\ blocks[id].prevId \notin DOMAIN last.pre.scores
          /\ blocks[id].prevId # startTip

\* the blocks minted during the round
Minted(blks) == {id \in DOMAIN blks : blks[id].height > InitBlocks[startTip].height}

\* C25: for every minted block b, at all times after minting, difficulty(b) is
\* the non-null nxtDifficulty stored on its parent and
\* cumDifficulty(b) = difficulty(b) + cumDifficulty(prev(b)).
C25_DifficultyFromParent ==
    \A id \in Minted(blocks) :
        /\ blocks[id].prevId \in DOMAIN blocks
        /\ blocks[blocks[id].prevId].nxtDifficulty # Null
        /\ blocks[id].difficulty = blocks[blocks[id].prevId].nxtDifficulty
        /\ blocks[id].cumDifficulty
              = blocks[id].difficulty + blocks[blocks[id].prevId].cumDifficulty

\* a block has been minted on a block of the round with a difficulty that is not
\* the history's, and has got a nxtDifficulty that differs again
C25_Witness_MintedOnMinted ==
    /\ last.kind = "integrated"
    /\ last.minted # NoId
    /\ blocks[last.minted].prevId \in Minted(blocks)
    /\ blocks[last.minted].difficulty # InitBlocks[startTip].difficulty
    /\ blocks[last.minted].nxtDifficulty # blocks[last.minted].difficulty

\* the block n prev links behind id (NoId when the walk leaves the table)
RECURSIVE WalkBack(_, _, _)
WalkBack(blks, id, n) ==
    IF n = 0 THEN id
    ELSE IF id \notin DOMAIN blks THEN NoId
    ELSE WalkBack(blks, blks[id].prevId, n - 1)

\* C26: every block minted during a round has a parent in the block table whose
\* height is exactly one less, so the prev links from any block go down in
\* height and reach the round's start tip without a cycle.
C26_ParentOneBelow ==
    \A id \in Minted(blocks) :
        /\ blocks[id].prevId \in DOMAIN blocks
        /\ blocks[id].height = blocks[blocks[id].prevId].height + 1
        /\ WalkBack(blocks, id, blocks[id].height - InitBlocks[startTip].height)
              = startTip

\* the block table holds a fork: two minted blocks on one parent, one of them
\* with a minted child
C26_Witness_Fork ==
    \E a \in Minted(blocks), b \in Minted(blocks), c \in Minted(blocks) :
        /\ a # b
        /\ blocks[a].prevId = blocks[b].prevId
        /\ blocks[c].prevId = a

\* the ceiling of a / b for b > 0 (\div rounds down)
CeilDiv(a, b) == -((-a) \div b)

\* the last n entries of arr
TakeLast(arr, n) == IF n >= Len(arr) THEN arr ELSE SubSeq(arr, Len(arr) - n + 1, Len(arr))

\* arr without its last n entries
DropLastN(arr, n) == IF n >= Len(arr) THEN <<>> ELSE SubSeq(arr, 1, Len(arr) - n)

\* the value the difficulty rule gives for a window: the last W + L entries
\* without the last L, sorted by timestamp; 1 for at most one entry; else the
\* ceiling of totalWork * T / max(1, timeSpan) over the cut range, at least 1
SpecifiedDifficulty(window, W, C, L, T) ==
    LET dw    == StableSort(WindowTimestamp(DropLastN(TakeLast(window, W + L), L)))
        len   == Len(dw)
        keep  == W - 2 * C
        cutB  == IF len <= keep THEN 0 ELSE (len - keep + 1) \div 2
        cutE  == IF len <= keep THEN len ELSE cutB + keep
        span  == Max(1, dw[cutE].timestamp - dw[cutB + 1].timestamp)
        work  == dw[cutE].cumDifficulty - dw[cutB + 1].cumDifficulty
    IN  IF len <= 1 THEN 1 ELSE Max(1, CeilDiv(work * T, span))

\* C27: for every window and every configuration with lag L >= 0 and
\* W > 2 * Cut, calculateNextDifficulty returns the specified value: of the last
\* W + L entries without the last L, sorted by timestamp, 1 if at most one entry
\* remains, else the ceiling of totalWork * targetSeconds / max(1, timeSpan)
\* over the cut range.
C27_NextDifficultyAsSpecified ==
    last.kind = "calculated" =>
        last.out = SpecifiedDifficulty(diffWindows[startTip], last.cfg.W, last.cfg.C,
                                       last.cfg.L, last.cfg.T)

\* the same for the configurations with a lag of at least 1
PositiveLagAsSpecified ==
    (last.kind = "calculated" /\ last.cfg.L >= 1) =>
        last.out = SpecifiedDifficulty(diffWindows[startTip], last.cfg.W, last.cfg.C,
                                       last.cfg.L, last.cfg.T)

\* the sorted window of the calculation observed
CalcSorted == SortedWindow(diffWindows[startTip], last.cfg.W, last.cfg.L)

\* C28: calculateNextDifficulty never divides by zero and always returns an
\* integer >= 1 (a zero time span counts as 1, a result <= 0 is replaced by 1),
\* so every stored nxtDifficulty and every minted block's difficulty is >= 1.
C28_DifficultyAtLeastOne ==
    /\ last.kind = "calculated" => (last.out >= 1 /\ last.span >= 1)
    /\ \A id \in DOMAIN blocks :
          /\ blocks[id].nxtDifficulty # Null => blocks[id].nxtDifficulty >= 1
          /\ id \in Minted(blocks) => blocks[id].difficulty >= 1

\* the cut range of at least two entries spans no time, and work was done in it
C28_Witness_ZeroSpan ==
    /\ last.kind = "calculated"
    /\ Len(CalcSorted) >= 2
    /\ CalcSorted[CutEnd(Len(CalcSorted), last.cfg.W, last.cfg.C)].timestamp
          = CalcSorted[CutBegin(Len(CalcSorted), last.cfg.W, last.cfg.C) + 1].timestamp
    /\ last.span = 1
    /\ last.out >= 2

\* C29: after every dispatched event (HASHER_FIND and stale events included) the
\* window cache holds windows only for blocks that are some pool's chaintip or
\* the parent of some pool's chaintip.
C29_WindowsOfTipsOnly ==
    \A k \in DOMAIN diffWindows :
        \E q \in PoolIds :
            \/ k = pools[q].chaintip
            \/ k = blocks[pools[q].chaintip].prevId

\* the window of a block that was stamped during the round is gone from the
\* cache, while the cache still holds the windows of two blocks
C29_Witness_Pruned ==
    /\ \E id \in Minted(blocks) :
          blocks[id].nxtDifficulty # Null /\ id \notin DOMAIN diffWindows
    /\ Cardinality(DOMAIN diffWindows) >= 2

\* C17: every pool's honTip is the round start tip at round start, so every
\* selfish decision, the first of the round included, is computed from a honTip
\* that is defined and has a score in the pool's scores.
C17_HonTipDefined ==
    /\ last.kind = "init" => \A q \in PoolIds : pools[q].honTip = startTip
    /\ (AgentCalled /\ ~ last.pre.honest) =>
          /\ last.pre.honTip \in DOMAIN last.pre.scores
          /\ last.kind # "agent_threw"

\* the noise samples one dispatched event can consume, one per sampler call
NoiseVectors ==
    [owdCheck : OwdP2HSamples, owdSend : OwdP2HSamples, owdP2H : OwdP2HSamples,
     blockTime : BlockTimeSamples, owdReq : OwdP2PSamples,
     transTime : TransTimeSamples, owdP2P : [PoolIds -> OwdP2PSamples]]

\* the queue positions eventQueue.pop() may return
Tops == {i \in 1..Len(eventQueue) : IsTop(eventQueue, i)}

\* the events of a queue with the number of times each is queued: the order
\* of the sequence that holds them stands for nothing in the heap
QueuedTimes(q) ==
    [e \in SeqToSet(q) |-> Cardinality({k \in 1..Len(q) : q[k] = e})]

\* the simulation state the results are written from
RoundState(pls, blks, wins, q, lp) ==
    [pools |-> pls, blocks |-> blks, diffWindows |-> wins,
     eventQueue |-> QueuedTimes(q), loop |-> lp]

\* the state after the agent returned dec for ev and the engine integrated it
\* with the samples n
IntegrateOutcome(i, ev, p, blks, dec, n) ==
    IF dec.err
    THEN RoundState([pools EXCEPT ![ev.poolId].scores =
                         [id \in DOMAIN p.scores |-> dec.sc[id]]],
                    blks, diffWindows, RemoveAt(eventQueue, i), "crashed")
    ELSE IF IntegrateThrows(p, ev, dec, blks)
    THEN RoundState([pools EXCEPT ![ev.poolId].scores = dec.sc],
                    blks, diffWindows, RemoveAt(eventQueue, i), "crashed")
    ELSE LET r == integrateStrategyResults(p, ev, dec, blks, diffWindows,
                      [owdP2H |-> n.owdP2H, blockTime |-> n.blockTime,
                       owdReq |-> n.owdReq, transTime |-> n.transTime,
                       owdP2P |-> n.owdP2P])
             pls == [pools EXCEPT ![ev.poolId] = r.pool]
         IN  RoundState(pls, r.blocks, resourceManagement(pls, r.blocks, r.wins),
                        RemoveAt(eventQueue, i) \o r.events, "running")

\* the part of one pass of the loop that draws no sample, for the popped
\* position i: the event as the agent sees it, the block table after
\* generateBlock, and the Decision of the agent where it is called
Decided(i) ==
    LET ev0 == eventQueue[i]
        p   == pools[ev0.poolId]
        id  == NewBlockId(blocks, ev0)
        ev  == [ev0 EXCEPT !.newIds = <<id>>]
        blks == (id :> generateBlock(blocks, ev0)) @@ blocks
    IN  IF ev0.simClock <= simDepth /\ ev0.action = "RECV_OWN"
           /\ GenerateBlockValid(p, blocks, ev0)
        THEN [called |-> TRUE, ev |-> ev, blks |-> blks,
              dec |-> invokePoolAgent(ev, p, blks)]
        ELSE IF ev0.simClock <= simDepth /\ ev0.action = "RECV_OTHER"
        THEN [called |-> TRUE, ev |-> ev0, blks |-> blocks,
              dec |-> invokePoolAgent(ev0, p, blocks)]
        ELSE [called |-> FALSE, ev |-> ev0, blks |-> blocks, dec |-> Decision(p)]

\* one pass of the loop of runSimulationEngine that pops position i, has
\* decided d and draws the samples n, as a function of the state
DispatchOutcome(i, d, n) ==
    LET ev0 == eventQueue[i]
        p   == pools[ev0.poolId]
        rest == RemoveAt(eventQueue, i)
        kept == resourceManagement(pools, blocks, diffWindows)
    IN  IF ev0.simClock > simDepth
        THEN RoundState(pools, blocks, diffWindows, rest, "stopped")
        ELSE IF d.called
        THEN IntegrateOutcome(i, d.ev, p, d.blks, d.dec, n)
        ELSE IF ev0.action = "HASHER_FIND"
        THEN LET oc == IF HasherFindSamplesWindow(p, blocks, ev0) THEN n.owdCheck ELSE 0
             IN  IF HasherFindValid(p, blocks, ev0, oc)
                 THEN RoundState(pools, blocks, kept,
                                 Append(rest, hasherFindsBlock(ev0, n.owdSend)), "running")
                 ELSE RoundState(pools, blocks, kept, rest, "running")
        ELSE RoundState(pools, blocks, kept, rest, "running")

\* the states one pass of the loop can end in when it draws the samples n,
\* ds being the decisions of the positions pop() may return
Outcomes(ds, n) == {DispatchOutcome(i, ds[i], n) : i \in Tops}

\* the sample vectors the pass that pops position i and has decided d can
\* draw: a sampler that is not called leaves its component at zero
DrawnVectors(i, d) ==
    LET ev0 == eventQueue[i]
        p   == pools[ev0.poolId]
        agent == d.called /\ ~ d.dec.err /\ ~ IntegrateThrows(p, d.ev, d.dec, d.blks)
        find  == ev0.simClock <= simDepth /\ ev0.action = "HASHER_FIND"
        tip   == agent /\ ChaintipChanges(p, d.dec)
        req   == agent /\ RequestsNew(p, d.ev, d.dec)
    IN  [owdCheck : Drawn(find /\ HasherFindSamplesWindow(p, blocks, ev0), OwdP2HSamples),
         owdSend : Drawn(find, OwdP2HSamples),
         owdP2H : Drawn(tip, OwdP2HSamples), blockTime : Drawn(tip, BlockTimeSamples),
         owdReq : Drawn(req, OwdP2PSamples), transTime : Drawn(req, TransTimeSamples),
         owdP2P : IF agent THEN BroadcastNoise(d.ev, d.dec) ELSE {[q \in PoolIds |-> 0]}]

\* every sampler returns its first sample
FirstSamples ==
    [owdCheck |-> 1, owdSend |-> 1, owdP2H |-> 1, blockTime |-> 1, owdReq |-> 1,
     transTime |-> 1, owdP2P |-> [q \in PoolIds |-> 1]]

RunOver == loop = "stopped" /\ \A idx \in Rounds : jobs[idx].worker = "exited"

\* C31: the failure of one round's worker is confined to that round: once the
\* run is over, every round whose worker sent a result, partial or whole, has
\* that result recorded, whatever happened to the other rounds.
C31_FailureConfined ==
    RunOver => \A idx \in Rounds : jobs[idx].result => idx \in SeqToSet(streams)

\* C32: a worker that hit an uncaught error or was cancelled has, once it is
\* gone, posted one final message and exited with code 1; and no worker ever
\* posts more than one result message.
C32_FinalMessageOnce ==
    \A idx \in Rounds :
        /\ jobs[idx].posted <= 1
        /\ (jobs[idx].worker = "exited" /\ jobs[idx].hit \in {"error", "cancel"}) =>
              (jobs[idx].posted = 1 /\ jobs[idx].exit_code = 1)

\* the same for the workers that hit an uncaught error, cancellation left aside
UncaughtErrorPostsOnce ==
    \A idx \in Rounds :
        /\ jobs[idx].posted <= 1
        /\ (jobs[idx].worker = "exited" /\ jobs[idx].hit = "error") =>
              (jobs[idx].posted = 1 /\ jobs[idx].exit_code = 1)

\* C38: the round indices recorded to the output files are in ascending order,
\* each at most once, in whatever order the workers exited.
C38_RecordedAscending ==
    \A i, j \in 1..Len(streams) : i < j => streams[i] < streams[j]

\* a worker of a later round exited before the worker of an earlier round, and
\* both rounds are recorded
C38_Witness_LaterExitedFirst ==
    \E i, j \in 1..Len(last.exits) :
        /\ i < j
        /\ last.exits[i] > last.exits[j]
        /\ {last.exits[i], last.exits[j]} \subseteq SeqToSet(streams)

\* the positions among the first k scores of p whose block the pool once took
\* for its head and has abandoned: isHeadPath = false, recorded chaintip itself
AbandonedAt(p, k) ==
    {i \in 1..k : ~ p.scores[p.order[i]].isHeadPath
                  /\ p.scores[p.order[i]].chaintip = p.order[i]}

\* the positions among the first k scores of p with isHeadPath = true
HeadPathAt(p, k) == {i \in 1..k : p.scores[p.order[i]].isHeadPath}

\* those of them whose recorded chaintip is the block itself
OwnHeadAt(p, k) ==
    {i \in HeadPathAt(p, k) : p.scores[p.order[i]].chaintip = p.order[i]}

\* the walk over the first k scores of p that counts the abandoned positions
\* and flushes the count at the positions in flush
FlushedAt(p, k, flush) ==
    LET at     == SelectSeq([i \in 1..k |-> i], LAMBDA i : i \in flush)
        from(m) == IF m = 1 THEN 0 ELSE at[m - 1]
        count  == [m \in 1..Len(at) |->
                      Cardinality({i \in AbandonedAt(p, k) : from(m) < i /\ i < at[m]})]
        since  == IF at = <<>> THEN 0 ELSE at[Len(at)]
    IN  [reorgDepth |-> Cardinality({i \in AbandonedAt(p, k) : i > since}),
         reorgList  |-> SelectSeq(count, LAMBDA c : c > 0)]

\* the pools calculateMetrics walks, when it runs
MetricsPools == IF loop = "stopped" THEN {q \in PoolIds : pools[q].honest} ELSE {}

\* C33: in the metrics walk over an honest pool's scores in insertion order,
\* reorgDepth counts the scores with isHeadPath = false whose recorded chaintip
\* is the block itself, and the count is appended to reorgList and reset to
\* zero at the next score with isHeadPath = true.
C33_FlushAtHeadPath ==
    \A q \in MetricsPools : \A k \in 0..Len(pools[q].order) :
        ReorgWalk(pools[q], k) = FlushedAt(pools[q], k, HeadPathAt(pools[q], k))

\* what the walk does: it flushes only at a score with isHeadPath = true whose
\* recorded chaintip is the block itself
WalkFlushesAtOwnHead ==
    \A q \in MetricsPools : \A k \in 0..Len(pools[q].order) :
        ReorgWalk(pools[q], k) = FlushedAt(pools[q], k, OwnHeadAt(pools[q], k))

\* the pending events by which pool q mines on its current chaintip
MiningEvents(pls, q, evq) ==
    {i \in 1..Len(evq) : /\ evq[i].poolId = q
                         /\ evq[i].action \in {"HASHER_FIND", "RECV_OWN"}
                         /\ evq[i].chaintip = pls[q].chaintip}

\* C34: mining never stalls: while the loop runs every pool has a pending
\* HASHER_FIND or RECV_OWN on its current chaintip, and a handled event pushes
\* a HASHER_FIND for a pool, on the pool's new chaintip, exactly when the
\* Decision it integrates changes that pool's chaintip.
C34_MiningNeverStalls ==
    [][/\ loop = "running" =>
             \A q \in PoolIds : MiningEvents(pools, q, eventQueue) # {}
       /\ loop' = "running" =>
             \A q \in PoolIds : MiningEvents(pools', q, eventQueue') # {}
       /\ HandlesEvent /\ loop' = "running" =>
             \A q \in PoolIds :
                LET finds == SelectSeq(Pushed, LAMBDA e : e.action = "HASHER_FIND"
                                                          /\ e.poolId = q)
                IN  IF pools'[q].chaintip # pools[q].chaintip
                    THEN /\ Len(finds) = 1
                         /\ finds[1].chaintip = pools'[q].chaintip
                         /\ last'.kind = "integrated" /\ last'.ev.poolId = q
                    ELSE finds = <<>>
      ]_vars

\* a pool has left its chaintip for another pool's block and mines on it
C34_Witness_MinesOnNewTip ==
    /\ last.kind = "integrated"
    /\ last.ev.action = "RECV_OTHER"
    /\ loop = "running"
    /\ last.dec.chaintip # last.pre.chaintip
    /\ \E i \in MiningEvents(pools, last.ev.poolId, eventQueue) :
          eventQueue[i].action = "HASHER_FIND"

TipScore(p) ==
    IF p.chaintip \in DOMAIN p.scores THEN p.scores[p.chaintip].cumDiffScore ELSE Null

\* the chaintip of p is scored and no block p has scored scores higher
TipIsHighest(p) ==
    /\ TipScore(p) # Null
    /\ \A id \in DOMAIN p.scores : p.scores[id].cumDiffScore <= TipScore(p)

\* C36: an honest pool's chaintip always has a non-null cumDiffScore in the
\* pool's scores, maximal among the blocks the pool has scored, and the
\* cumDiffScore of the chaintip never decreases.
C36_HonestTipHighest ==
    [][\A q \in PoolIds :
          pools[q].honest =>
             /\ TipIsHighest(pools[q])
             /\ TipIsHighest(pools'[q])
             /\ TipScore(pools'[q]) >= TipScore(pools[q])]_vars

\* an honest pool has scored a block of a losing fork and kept its chaintip
C36_Witness_LowerForkScored ==
    /\ last.kind = "integrated"
    /\ last.pre.honest
    /\ last.dec.chaintip = last.pre.chaintip
    /\ \E id \in DOMAIN pools[last.ev.poolId].scores \ DOMAIN last.pre.scores :
          /\ pools[last.ev.poolId].scores[id].cumDiffScore # Null
          /\ id # last.dec.chaintip

C39_CachedWindowIsWalk ==
    /\ \A t \in DOMAIN diffWindows :
          /\ diffWindows[t] = reconstructDiffWindow(blocks, t)
          /\ Len(diffWindows[t]) <= DIFFICULTY_WINDOW + DIFFICULTY_LAG
    /\ \A id \in DOMAIN blocks :
          blocks[id].nxtDifficulty # Null =>
              blocks[id].nxtDifficulty =
                  calculateNextDifficulty(reconstructDiffWindow(blocks, id))

\* a block was minted on a tip whose window had been pruned: the window was
\* reconstructed, extended, cached for the new block and its difficulty computed
C39_Witness_Reconstructed ==
    /\ last.kind = "integrated"
    /\ last.rebuilt
    /\ last.minted # NoId
    /\ last.minted \in DOMAIN diffWindows
    /\ blocks[last.minted].nxtDifficulty # Null

\* a block of the table at or above the round start tip
AtOrAboveStart(id) ==
    id \in DOMAIN blocks /\ blocks[id].height >= InitBlocks[startTip].height

\* the agent walked for the event it has just handled: its new tip was not
\* already scored
AgentWalked ==
    /\ AgentCalled
    /\ last.ev.newIds # <<>>
    /\ ~ AlreadyScored(last.pre, Last(last.ev.newIds))

\* C40: every backward walk of the agent over prev links (branch resolution,
\* the selfish search of the common ancestor from honTip, the collection of
\* unbroadcast blocks, the head-path marking and the unmarking of orphans) ends
\* at a block at or above the round start tip, and none dereferences a block or
\* a score that does not exist: the agent call does not throw.
C40_WalksEndAboveStart ==
    AgentWalked =>
        /\ last.kind # "agent_threw"
        /\ AtOrAboveStart(resolveBranch(last.ev, last.pre, blocks,
                                        Last(last.ev.newIds)).ancestorId)
        /\ (~ last.pre.honest /\ last.ev.action = "RECV_OWN") =>
               LET walk == AncestorWalk(last.pre, blocks, last.pre.honTip)
               IN  walk[1] /\ AtOrAboveStart(walk[2])
        /\ last.dec.log.seen => AtOrAboveStart(last.dec.log.anc)

-----------------------------------------------------------------------------
(* Properties of the selfish decision, checked under SelfishSpec *)

\* the Decision handled last is a selfish pool's, computed from scores
SelfishDecided == last.kind = "integrated" /\ ~ last.pre.honest /\ last.dec.hasScores

\* the selfish pool's own tip at the decision: its chaintip, or the block it mined
OwnTip == IF last.ev.action = "RECV_OWN" THEN last.minted ELSE last.pre.chaintip

\* the abandon condition, from the values the decision printed
AbandonCase ==
    last.dec.log.seen /\ (last.dec.log.abandon > 0 \/ last.dec.log.sL = 0)

RECURSIVE PrivateRun(_, _, _)
PrivateRun(blks, sent, id) ==
    IF id \in sent \/ id \notin DOMAIN blks THEN <<>>
    ELSE Append(PrivateRun(blks, sent, blks[id].prevId), id)

\* the first n elements of a run
FirstOf(run, n) == SubSeq(run, 1, Min(n, Len(run)))

LookupTable ==
    { <<1, -1, 1, 1, 3>>,   <<1, 0, 1, 0, 2>>,    <<1, 1, 2, -1, 2>>,
      <<1, 1, 1, -1, 1>>,   <<1, 2, 1, -2, 0>>,   <<1, 3, 1, -3, -1>>,
      <<0, -1, 1, 1, 2>>,   <<0, 0, 1, 0, 1>>,    <<0, 1, 2, -1, 1>>,
      <<0, 1, 1, -1, 0>>,   <<0, 2, 1, -2, -1>>,
      <<-1, -2, 1, 1, 3>>,  <<-1, -1, 1, 0, 2>>,  <<-1, 0, 1, -1, 1>>,
      <<-1, 1, 2, -2, 1>>,  <<-1, 1, 1, -2, 0>>,  <<-1, 2, 1, -3, -1>> }

SilentBehind ==
    /\ SelfishDecided
    /\ last.dec.log.seen
    /\ last.pre.retortPolicy = 0
    /\ last.dec.log.sL < last.dec.log.hL

\* the Decision handled last takes the abandon path and broadcasts nothing
TakesHonestTip ==
    /\ last.dec.broadcastIds = <<>>
    /\ last.dec.chaintip = pools[last.ev.poolId].honTip
    /\ last.dec.chaintip # OwnTip

EqualForkDecided ==
    SelfishDecided /\ last.pre.kThresh = 1 /\ last.pre.retortPolicy = 1

\* the Decision broadcasts the pool's branch up to its tip
WholeBranchBroadcast ==
    last.dec.broadcastIds # <<>> /\ Last(last.dec.broadcastIds) = OwnTip

====
